---- MODULE Spec2Model ----
(***************************************************************************)
(* Message decoding layer of the Foxglove Python client.                   *)
(*                                                                         *)
(* Three operations are modelled:                                          *)
(*   foxglove.client.Client.iter_messages             (lazy four-tuples)   *)
(*   foxglove.client.Client.get_messages              (bulk, deprecated)   *)
(*   foxglove_data_platform.client.Client.get_messages (legacy bulk)       *)
(*                                                                         *)
(* The container is an MCAP record sequence.  The two clients hand it to   *)
(* the mcap package (make_reader / iter_decoded_messages / iter_messages); *)
(* the reader operators below give the behaviour of those callees as the   *)
(* clients invoke them, the decoder factories, the decoder cache of the    *)
(* legacy client and the call sequences are the clients' own code.         *)
(* A container is its data section, read linearly (no summary index), in   *)
(* chunks of ChunkLengths records.                                         *)
(***************************************************************************)
EXTENDS Integers, Sequences, FiniteSets, TLC

\* Longest record sequence that follows the header of a container.
MaxBody == 3

\* Python's None, and None where a schema or a decoder is expected.
None == "None"
NoSchema == [type |-> "None", id |-> 0, encoding |-> "None"]
NoDecoder == [kind |-> "None", schema |-> 0]

\* MessageEncoding.JSON of mcap.well_known, compared in _JsonDecoderFactory.
MessageEncoding_JSON == "json"

----------------------------------------------------------------------------
(* Records of a container.                                                 *)

Schema(id, encoding) ==
    [type |-> "Schema", id |-> id, encoding |-> encoding]

Channel(id, schema_id, message_encoding, topic) ==
    [type |-> "Channel", id |-> id, schema_id |-> schema_id,
     message_encoding |-> message_encoding, topic |-> topic]

Message(channel_id, log_time, data) ==
    [type |-> "Message", channel_id |-> channel_id, log_time |-> log_time,
     data |-> data]

\* Payload texts.  The first two are what generate_json_data writes with
\* json.dumps for level 1 and 2; "{" is not a JSON document.
Level1Text == "{\"happy\": true, \"level\": 1}"
Level2Text == "{\"happy\": true, \"level\": 2}"
BrokenText == "{"
Ros1Bytes  == "ros1:string message 1"

S1 == Schema(1, "jsonschema")
S2 == Schema(2, "jsonschema")
S3 == Schema(3, "ros1msg")
C1 == Channel(1, 1, "json", "/moods")
C2 == Channel(2, 2, "json", "/calm")
C3 == Channel(3, 3, "ros1", "/chatter")
\* A channel without a schema (schema id 0).
C4 == Channel(4, 0, "json", "/raw")
M1 == Message(1, 2, Level1Text)
M2 == Message(2, 1, Level2Text)
M3 == Message(3, 2, Ros1Bytes)
M4 == Message(4, 1, Level1Text)
M5 == Message(1, 2, BrokenText)

\* Definition records a container may start with (a writer registers schemas
\* and channels before it adds messages), also in a wrong order or incomplete.
Headers ==
    { <<S1, C1>>, <<S1, S2, C1, C2>>, <<S1, C1, C4>>, <<S1, C1, S3, C3>> }

\* Records that may follow the header, in any order.
BodyRecords == {C3, M1, M2, M3, M4, M5}

SeqsUpTo(S, n) == UNION { [1..k -> S] : k \in 0..n }

\* Records per chunk of the byte stream: 1 is a stream of plain records, 2 a
\* stream whose records are packed in chunk records two by two.
ChunkLengths == {1, 2}

\* A container: its records in file order, how they are chunked, whether its
\* bytes start with the magic, and the record inside which its bytes end (0:
\* the bytes are complete, footer and closing magic included).
Container(records, chunk, magic, cut) ==
    [records |-> records, chunk |-> chunk, magic |-> magic, cut |-> cut]

\* Well-framed containers.
Containers ==
    { Container(h \o b, n, TRUE, 0) :
        h \in Headers, b \in SeqsUpTo(BodyRecords, MaxBody), n \in ChunkLengths }

\* Containers whose framing is broken: the magic is wrong, or the bytes end
\* inside a record.
MalformedContainers ==
    { c \in { Container(h \o b, n, magic, cut) :
                h \in { <<S1, C1>>, <<S1, S2, C1, C2>> },
                b \in SeqsUpTo({M1, M2}, MaxBody),
                n \in ChunkLengths,
                magic \in BOOLEAN,
                cut \in 0..(4 + MaxBody) } :
        /\ c.cut <= Len(c.records)
        /\ ~c.magic \/ c.cut # 0 }

----------------------------------------------------------------------------
(* Decoders and decoder factories.                                         *)

JSONDecodeError == [ok |-> FALSE, err |-> "JSONDecodeError"]

\* json.loads(message_content.decode("utf-8")) on the payload texts.
JsonLoads(text) ==
    CASE text = Level1Text -> [ok |-> TRUE, value |-> [happy |-> TRUE, level |-> 1]]
      [] text = Level2Text -> [ok |-> TRUE, value |-> [happy |-> TRUE, level |-> 2]]
      [] OTHER             -> JSONDecodeError

\* Deserialisation of a ROS1/ROS2/Protobuf payload by the optional packages.
BinaryLoads(kind, text) ==
    IF text = Ros1Bytes /\ kind = "ros1"
    THEN [ok |-> TRUE, value |-> [data |-> "string message 1"]]
    ELSE [ok |-> FALSE, err |-> "DeserializeError"]

\* A decoder factory object; types is the per-schema state the factories of
\* the optional packages keep ("these factories might be mutated").
Factory(kind) == [kind |-> kind, types |-> {}]

JsonFactoryNoCheck_decoder_for(factory, message_encoding, schema) ==
    [decoder |-> [kind |-> "json", schema |-> 0], factory |-> factory]

\* _JsonDecoderFactory.decoder_for
JsonFactory_decoder_for(factory, message_encoding, schema) ==
    IF message_encoding = MessageEncoding_JSON
    THEN [decoder |-> [kind |-> "json", schema |-> 0], factory |-> factory]
    ELSE [decoder |-> NoDecoder, factory |-> factory]

\* Schema encoding each optional factory accepts for its message encoding.
SchemaEncodingOf(kind) ==
    CASE kind = "ros1"     -> "ros1msg"
      [] kind = "protobuf" -> "protobuf"
      [] kind = "cdr"      -> "ros2msg"
      [] OTHER             -> None

\* decoder_for of the DecoderFactory classes imported from mcap_ros1,
\* mcap_protobuf and mcap_ros2.
OptionalFactory_decoder_for(factory, message_encoding, schema) ==
    IF message_encoding = factory.kind /\ schema.type # "None"
       /\ schema.encoding = SchemaEncodingOf(factory.kind)
    THEN [decoder |-> [kind |-> factory.kind, schema |-> schema.id],
          factory |-> [factory EXCEPT !.types = @ \cup {schema.id}]]
    ELSE [decoder |-> NoDecoder, factory |-> factory]

decoder_for(factory, message_encoding, schema) ==
    IF factory.kind = "json"
    THEN JsonFactory_decoder_for(factory, message_encoding, schema)
    ELSE OptionalFactory_decoder_for(factory, message_encoding, schema)

\* Calling a decoder on message.data.
ApplyDecoder(decoder, data) ==
    IF decoder.kind = "json" THEN JsonLoads(data) ELSE BinaryLoads(decoder.kind, data)

\* The optional decoder packages and the factory each contributes.
OptionalPackages == {"mcap_ros1", "mcap_protobuf", "mcap_ros2"}

\* Module import of foxglove.client: the JSON factory, then one factory per
\* optional package that can be imported.
ImportDefaults(installed) ==
    <<Factory("json")>>
    \o (IF "mcap_ros1" \in installed THEN <<Factory("ros1")>> ELSE <<>>)
    \o (IF "mcap_protobuf" \in installed THEN <<Factory("protobuf")>> ELSE <<>>)
    \o (IF "mcap_ros2" \in installed THEN <<Factory("cdr")>> ELSE <<>>)

----------------------------------------------------------------------------
(* The reader returned by make_reader.                                     *)

PutNothing(f, k, v) == f
Put(f, k, v) == [x \in DOMAIN f \cup {k} |-> IF x = k THEN v ELSE f[x]]

\* made is the log of the decoders constructed for the reader's messages, each
\* with its encoding tag and the key it is cached under.
make_reader(decoder_factories) ==
    [pos |-> 0, fetched |-> 0, schemas |-> <<>>, channels |-> <<>>, decoders |-> <<>>,
     factories |-> decoder_factories, made |-> <<>>,
     loaded |-> FALSE, queue |-> <<>>, finished |-> FALSE]

Raise(r, err) ==
    [kind |-> "raise", r |-> [r EXCEPT !.finished = TRUE], value |-> None, err |-> err]

Min(a, b) == IF a <= b THEN a ELSE b

\* Linear read of the record stream up to and including the next Message
\* record; Schema and Channel records fill the reader's tables on the way.
\* A record is parsed out of the chunk that holds it, and the chunk is read
\* from the byte source as a whole when its first record is needed.
SchemaAssumed(r, rec) == TRUE

\* The schema a Channel record refers to is none (id 0) or a registered one.
SchemaRegistered(r, rec) == rec.schema_id = 0 \/ rec.schema_id \in DOMAIN r.schemas

\* The schema handed out with a message of the channel: the registered Schema
\* record, or None.
SchemaOf(r, channel) ==
    IF channel.schema_id \in DOMAIN r.schemas THEN r.schemas[channel.schema_id]
    ELSE NoSchema

RECURSIVE NextMessage(_, _)
SkipUnknownChannel(c, r) == NextMessage(c, r)

\* A Message record whose channel id is not registered ends the read.
OnUnknownChannel(c, r) == Raise(r, "UnknownChannel")

EndAtTruncation(c, r) == [kind |-> "end", r |-> r, value |-> None, err |-> None]

\* The bytes end inside the chunk that is to be read next.
OnTruncatedChunk(c, r) == Raise(r, "EndOfFile")

NextMessage(c, r) ==
    IF r.pos = 0 /\ ~c.magic
    THEN Raise(r, "InvalidMagic")
    ELSE IF r.pos >= Len(c.records)
    THEN [kind |-> "end", r |-> r, value |-> None, err |-> None]
    ELSE IF /\ r.pos + 1 > r.fetched
            /\ c.cut \in (r.fetched + 1)..Min(Len(c.records), r.fetched + c.chunk)
    THEN OnTruncatedChunk(c, r)
    ELSE LET rec == c.records[r.pos + 1]
             r1  == [r EXCEPT !.pos = @ + 1,
                              !.fetched = IF r.pos + 1 > @
                                          THEN Min(Len(c.records), @ + c.chunk)
                                          ELSE @]
         IN  CASE rec.type = "Schema" ->
                    NextMessage(c, [r1 EXCEPT !.schemas = Put(@, rec.id, rec)])
               [] rec.type = "Channel" ->
                    IF ~SchemaRegistered(r1, rec)
                    THEN Raise(r1, "UnknownSchema")
                    ELSE NextMessage(c, [r1 EXCEPT !.channels = Put(@, rec.id, rec)])
               [] OTHER ->
                    IF rec.channel_id \notin DOMAIN r1.channels
                    THEN OnUnknownChannel(c, r1)
                    ELSE LET channel == r1.channels[rec.channel_id]
                             schema  == SchemaOf(r1, channel)
                         IN  [kind |-> "message", r |-> r1,
                              value |-> <<schema, channel, rec>>, err |-> None]

\* Stable insertion of a (schema, channel, message) triple by log time.
RECURSIVE InsertByLogTime(_, _)
InsertByLogTime(sorted, item) ==
    IF sorted = <<>> THEN <<item>>
    ELSE IF sorted[Len(sorted)][3].log_time <= item[3].log_time
         THEN Append(sorted, item)
         ELSE Append(InsertByLogTime(SubSeq(sorted, 1, Len(sorted) - 1), item),
                     sorted[Len(sorted)])

\* log_time_order=True: every record is read first, then the messages are
\* sorted by log time.
RECURSIVE LoadSorted(_, _)
LoadSorted(c, r) ==
    LET step == NextMessage(c, r)
    IN  CASE step.kind = "raise" -> step
          [] step.kind = "end"   -> [step EXCEPT !.r.loaded = TRUE]
          [] OTHER ->
               LoadSorted(c, [step.r EXCEPT !.queue = InsertByLogTime(@, step.value)])

\* One step of reader.iter_messages(log_time_order=...).
iter_messages_next(c, r, log_time_order) ==
    IF ~log_time_order THEN NextMessage(c, r)
    ELSE LET l == IF r.loaded THEN [kind |-> "end", r |-> r, value |-> None, err |-> None]
                  ELSE LoadSorted(c, r)
         IN  IF l.kind = "raise" THEN l
             ELSE IF l.r.queue = <<>> THEN l
             ELSE [kind |-> "message", r |-> [l.r EXCEPT !.queue = Tail(@)],
                   value |-> Head(l.r.queue), err |-> None]

\* The first factory of the list that returns a decoder.
RECURSIVE FirstDecoder(_, _, _, _)
JsonDecoderAlways(factories, i, message_encoding, schema) ==
    [decoder |-> [kind |-> "json", schema |-> 0], factories |-> factories]

FirstDecoder(factories, i, message_encoding, schema) ==
    IF i > Len(factories) THEN [decoder |-> NoDecoder, factories |-> factories]
    ELSE LET got == decoder_for(factories[i], message_encoding, schema)
             fs  == [factories EXCEPT ![i] = got.factory]
         IN  IF got.decoder.kind # "None" THEN [decoder |-> got.decoder, factories |-> fs]
             ELSE FirstDecoder(fs, i + 1, message_encoding, schema)

\* decoded_message of iter_decoded_messages: the decoder cached for the
\* message's channel, else the first factory that supports the channel's
\* message encoding.
decoded_message(r, schema, channel, message) ==
    IF message.channel_id \in DOMAIN r.decoders
    THEN [r |-> r, res |-> ApplyDecoder(r.decoders[message.channel_id], message.data)]
    ELSE LET found == FirstDecoder(r.factories, 1, channel.message_encoding, schema)
         IN  IF found.decoder.kind = "None"
             THEN [r |-> [r EXCEPT !.factories = found.factories],
                   res |-> [ok |-> FALSE, err |-> "DecoderNotFound"]]
             ELSE [r |-> [r EXCEPT !.factories = found.factories,
                                   !.decoders = Put(@, message.channel_id, found.decoder),
                                   !.made = Append(@, <<channel.message_encoding,
                                                        message.channel_id>>)],
                   res |-> ApplyDecoder(found.decoder, message.data)]

Rewind(r) == [r EXCEPT !.pos = 0, !.fetched = 0]

\* The generator returned its last item: it stays exhausted, and the byte
\* stream behind it is left where it ended.
Exhaust(r) == [r EXCEPT !.finished = TRUE]

\* One pull of reader.iter_decoded_messages(log_time_order=...).
iter_decoded_messages_next(c, r, log_time_order) ==
    IF r.finished
    THEN [kind |-> "stop", r |-> r, value |-> None, err |-> None]
    ELSE LET step == iter_messages_next(c, r, log_time_order)
         IN  CASE step.kind = "raise" -> step
               [] step.kind = "end" ->
                    [kind |-> "stop", r |-> Exhaust(step.r),
                     value |-> None, err |-> None]
               [] OTHER ->
                    LET schema == step.value[1]
                        channel == step.value[2]
                        message == step.value[3]
                        d == decoded_message(step.r, schema, channel, message)
                    IN  IF d.res.ok
                        THEN [kind |-> "yield", r |-> d.r,
                              value |-> <<schema, channel, message, d.res.value>>,
                              err |-> None]
                        ELSE Raise(d.r, d.res.err)

\* Draining the generator in the list comprehension of get_messages: the
\* list of everything it yields, or the error.
RECURSIVE Drain(_, _, _, _)
DrainBestEffort(c, step, log_time_order, acc) ==
    CASE step.kind = "yield" -> Drain(c, step.r, log_time_order, Append(acc, step.value))
      [] OTHER               -> [ok |-> TRUE, value |-> acc, r |-> step.r]

DrainStep(c, step, log_time_order, acc) ==
    CASE step.kind = "yield" -> Drain(c, step.r, log_time_order, Append(acc, step.value))
      [] step.kind = "stop"  -> [ok |-> TRUE, value |-> acc, r |-> step.r]
      [] OTHER               -> [ok |-> FALSE, err |-> step.err, r |-> step.r]

Drain(c, r, log_time_order, acc) ==
    CHOOSE d \in { DrainStep(c, step, log_time_order, acc) :
                   step \in {iter_decoded_messages_next(c, r, log_time_order)} } : TRUE

----------------------------------------------------------------------------
(* The legacy client: its own decoder table and decode loop.               *)

\* Ros1Decoder / Ros2Decoder / ProtobufDecoder of the legacy module: the
\* imported class, or _err_on_construction(err) when the import failed.
ConstructAnyway(package, kind, installed) ==
    [ok |-> TRUE, decoder |-> [kind |-> kind, schema |-> 0]]

ConstructOptional(package, kind, installed) ==
    IF package \in installed
    THEN [ok |-> TRUE, decoder |-> [kind |-> kind, schema |-> 0]]
    ELSE [ok |-> FALSE, err |-> "RuntimeError"]

\* decoder_for_schema_encoding
decoder_for_schema_encoding(encoding_string, installed) ==
    CASE encoding_string = "ros1msg"    -> ConstructOptional("mcap_ros1", "ros1", installed)
      [] encoding_string = "ros2msg"    -> ConstructOptional("mcap_ros2", "cdr", installed)
      [] encoding_string = "protobuf"   -> ConstructOptional("mcap_protobuf", "protobuf", installed)
      [] encoding_string = "jsonschema" -> [ok |-> TRUE, decoder |-> [kind |-> "json", schema |-> 0]]
      [] OTHER                          -> [ok |-> FALSE, err |-> "RuntimeError"]

\* The loop of the legacy get_messages over reader.iter_messages(): decoders
\* is the dict keyed by schema.encoding, made the log of the decoders
\* constructed, output_messages the list built so far.
NeverCached(decoders, encoding) == FALSE

\* schema.encoding in decoders
Cached(decoders, encoding) == encoding \in DOMAIN decoders

RECURSIVE LegacyLoop(_, _, _, _, _, _, _)
LegacyBody(c, step, log_time_order, installed, decoders, made, output_messages) ==
    CASE step.kind = "raise" ->
           [ok |-> FALSE, err |-> step.err, made |-> made, r |-> step.r]
      [] step.kind = "end"   ->
           [ok |-> TRUE, value |-> output_messages, made |-> made, r |-> step.r]
      [] OTHER ->
           LET schema  == step.value[1]
               channel == step.value[2]
               message == step.value[3]
           IN  IF schema.type = "None"
               THEN [ok |-> FALSE, err |-> "AttributeError", made |-> made, r |-> step.r]
               ELSE LET cached == Cached(decoders, schema.encoding)
                        built  == IF cached
                                  THEN [ok |-> TRUE, decoder |-> decoders[schema.encoding]]
                                  ELSE decoder_for_schema_encoding(schema.encoding, installed)
                        made1  == IF cached THEN made
                                  ELSE Append(made, <<schema.encoding, schema.encoding>>)
                    IN  IF ~built.ok
                        THEN [ok |-> FALSE, err |-> built.err, made |-> made, r |-> step.r]
                        ELSE LET res == ApplyDecoder(built.decoder, message.data)
                             IN  IF ~res.ok
                                 THEN [ok |-> FALSE, err |-> res.err, made |-> made1,
                                       r |-> step.r]
                                 ELSE LegacyLoop(c, step.r, log_time_order, installed,
                                        IF cached THEN decoders
                                        ELSE Put(decoders, schema.encoding, built.decoder),
                                        made1,
                                        Append(output_messages,
                                               <<channel.topic, message, res.value>>))

LegacyLoop(c, r, log_time_order, installed, decoders, made, output_messages) ==
    CHOOSE l \in { LegacyBody(c, step, log_time_order, installed, decoders, made,
                              output_messages) :
                   step \in {iter_messages_next(c, r, log_time_order)} } : TRUE

----------------------------------------------------------------------------
(* The calls.                                                              *)

\* The decoder_factories argument: not given (None) or a list of factories.
NoArgument == [given |-> FALSE, list |-> <<>>]
FactoryArguments ==
    { NoArgument,
      [given |-> TRUE, list |-> <<>>],
      [given |-> TRUE, list |-> <<Factory("json")>>] }

\* What the optional imports of a Python environment can have found.
Environments == { {}, {"mcap_ros1"} }

FactoriesNoDefaults(decoder_factories, defaults) ==
    IF decoder_factories.given THEN [list |-> decoder_factories.list, alias |-> FALSE]
    ELSE [list |-> <<>>, alias |-> FALSE]

FactoriesAliased(decoder_factories, defaults) ==
    IF decoder_factories.given THEN [list |-> decoder_factories.list, alias |-> FALSE]
    ELSE [list |-> defaults, alias |-> TRUE]

FactoriesWhenFalsy(decoder_factories, defaults) ==
    IF decoder_factories.given /\ decoder_factories.list # <<>>
    THEN [list |-> decoder_factories.list, alias |-> FALSE]
    ELSE [list |-> defaults, alias |-> FALSE]

\* "if decoder_factories is None: decoder_factories =
\* copy.deepcopy(DEFAULT_DECODER_FACTORIES)": the list the reader is built
\* with, and whether it is the module-level list itself.
FactoriesInEffect(decoder_factories, defaults) ==
    IF decoder_factories.given THEN [list |-> decoder_factories.list, alias |-> FALSE]
    ELSE [list |-> defaults, alias |-> FALSE]

LogTimeOrderTrue == TRUE

\* The log_time_order argument iter_messages and get_messages pass.
LogTimeOrder == FALSE

ItemByEncoding(t) == <<t[2].message_encoding, t[3], t[4]>>

\* (channel.topic, message, decoded_message) of a decoded tuple.
Item(t) == <<t[2].topic, t[3], t[4]>>

NoResult == [kind |-> "none", value |-> <<>>, err |-> None]
Returned(value) == [kind |-> "return", value |-> value, err |-> None]
Raised(err) == [kind |-> "raise", value |-> <<>>, err |-> err]

VARIABLES
    container,  \* the records served for the requested device and time range
    installed,  \* the optional decoder packages of the environment
    DEFAULT_DECODER_FACTORIES,  \* module-level list of foxglove.client
    pc,         \* "idle", "iterating" (a generator is held), "returned"
    op,         \* the operation of the current call
    argument,   \* its decoder_factories argument
    reader,     \* the reader the call built
    aliased,    \* reader.factories is the module-level list itself
    out,        \* tuples the generator of iter_messages has yielded
    pulls,      \* outcome of each pull: "yield", "raise" or "stop"
    result      \* what the call returned or raised

\* A JSON message on its way from the writer to a decoder.
VARIABLES
    json_value,       \* the value the writer serialises
    message_data,     \* the bytes of the Message record
    json_pc,          \* "value", "written", or the decoder that was called
    decoded_payload   \* what the decoder returned or raised

\* The progress-reporting reader: the source handed to it, the reader
\* object, the calls its callback received, the read calls made on it, and
\* whether it is constructed.
VARIABLES
    upload_source, progress_reader, callback_calls, read_calls, progress_pc

\* One call of a Client method that talks to the platform API.
VARIABLES
    api_pc,          \* "idle", "streaming" (a download is being read), "done"
    api_call,        \* the method called and its arguments
    sent,            \* the requests the session has sent, in order
    api_response,    \* the response of the API to the method's request
    api_json,        \* what json_or_raise made of that response
    link_response,   \* the response to the request sent to the link
    stream,          \* a download: bytes still to come, chunks arrived so far
    data_io,         \* the BytesIO the chunks are written to
    progress_calls,  \* the progress values the download callback received
    api_result       \* what the method returned or raised

decodeVars == <<container, installed, DEFAULT_DECODER_FACTORIES, pc, op, argument,
                reader, aliased, out, pulls, result>>
jsonVars == <<json_value, message_data, json_pc, decoded_payload>>
progressVars == <<upload_source, progress_reader, callback_calls, read_calls,
                  progress_pc>>
apiVars == <<api_pc, api_call, sent, api_response, api_json, link_response, stream, data_io,
             progress_calls, api_result>>

vars == <<decodeVars, jsonVars, progressVars, apiVars>>

\* No JSON message is followed.
JsonIdle ==
    /\ json_value = None
    /\ message_data = None
    /\ json_pc = None
    /\ decoded_payload = None

\* No progress-reporting reader exists.
ProgressIdle ==
    /\ upload_source = None
    /\ progress_reader = None
    /\ callback_calls = None
    /\ read_calls = None
    /\ progress_pc = None

\* No Client method is being called.
ApiIdle ==
    /\ api_pc = None
    /\ api_call = None
    /\ sent = None
    /\ link_response = None
    /\ api_response = None
    /\ api_json = None
    /\ stream = None
    /\ data_io = None
    /\ progress_calls = None
    /\ api_result = None

\* Everything outside the decoding calls, and its state while only they run.
notDecodeVars == <<jsonVars, progressVars, apiVars>>
NotDecodeIdle == JsonIdle /\ ProgressIdle /\ ApiIdle

Init ==
    /\ NotDecodeIdle
    /\ container \in Containers
    /\ installed \in Environments
    /\ DEFAULT_DECODER_FACTORIES \in
         {ImportDefaults(installed)} \cup (IF installed = {} THEN { <<>> } ELSE {})
    /\ pc = "idle"
    /\ op = "none"
    /\ argument = NoArgument
    /\ reader = make_reader(<<>>)
    /\ aliased = FALSE
    /\ out = <<>>
    /\ pulls = <<>>
    /\ result = NoResult

\* make_reader on the downloaded bytes, which can be sought in: the magic is
\* read when the reader is made and the footer is looked for at the end
\* before any record is read.  What is found where the footer should be
\* decides which error it is.
SeekingReader_open(c) ==
    IF ~c.magic THEN {"InvalidMagic"}
    ELSE IF c.cut # 0 THEN {"EndOfFile", "McapError"}
    ELSE {None}

InitMalformed ==
    /\ NotDecodeIdle
    /\ container \in MalformedContainers
    /\ installed \in Environments
    /\ DEFAULT_DECODER_FACTORIES \in
         {ImportDefaults(installed)} \cup (IF installed = {} THEN { <<>> } ELSE {})
    /\ pc = "idle"
    /\ op = "none"
    /\ argument = NoArgument
    /\ reader = make_reader(<<>>)
    /\ aliased = FALSE
    /\ out = <<>>
    /\ pulls = <<>>
    /\ result = NoResult

\* Mutations of an aliased factory list are mutations of the module's list.
WriteThrough(alias, r, defaults) == IF alias THEN r.factories ELSE defaults

\* foxglove.client.Client.iter_messages: the stream link is requested, the
\* link is opened as a stream, and the generator over the reader is returned.
IterMessages ==
    /\ pc = "idle"
    /\ \E a \in FactoryArguments, selector \in BOOLEAN, post_ok \in BOOLEAN,
          get_ok \in BOOLEAN :
         /\ op' = "iter_messages"
         /\ argument' = a
         /\ out' = <<>>
         /\ pulls' = <<>>
         /\ IF ~selector
            THEN /\ result' = Raised("RuntimeError")
                 /\ pc' = "returned"
                 /\ UNCHANGED <<reader, aliased>>
            ELSE IF ~(post_ok /\ get_ok)
            THEN /\ result' = Raised("HTTPError")
                 /\ pc' = "returned"
                 /\ UNCHANGED <<reader, aliased>>
            ELSE \E f \in {FactoriesInEffect(a, DEFAULT_DECODER_FACTORIES)} :
                     /\ reader' = make_reader(f.list)
                     /\ aliased' = f.alias
                     /\ result' = NoResult
                     /\ pc' = "iterating"
    /\ UNCHANGED <<container, installed, DEFAULT_DECODER_FACTORIES>>
    /\ UNCHANGED notDecodeVars

\* The pulls that found the generator at its end.  A caller pulls on an
\* exhausted generator at most MaxStops times.
MaxStops == 2
Stops(ps) == Cardinality({ i \in DOMAIN ps : ps[i] = "stop" })

\* One next() on the generator iter_messages returned.
Pull ==
    /\ pc = "iterating"
    /\ Stops(pulls) < MaxStops
    /\ \E step \in {iter_decoded_messages_next(container, reader, LogTimeOrder)} :
           /\ reader' = step.r
           /\ pulls' = Append(pulls, step.kind)
           /\ out' = IF step.kind = "yield" THEN Append(out, step.value) ELSE out
           /\ result' = IF step.kind = "raise" THEN Raised(step.err) ELSE result
           /\ DEFAULT_DECODER_FACTORIES' =
                  WriteThrough(aliased, step.r, DEFAULT_DECODER_FACTORIES)
    /\ UNCHANGED <<container, installed, pc, op, argument, aliased>>
    /\ UNCHANGED notDecodeVars

\* foxglove.client.Client.get_messages: download, then the list of every
\* (topic, message, decoded message).
GetMessages ==
    /\ pc = "idle"
    /\ \E a \in FactoryArguments, download_ok \in BOOLEAN :
         /\ op' = "get_messages"
         /\ argument' = a
         /\ IF ~download_ok
            THEN /\ result' = Raised("HTTPError")
                 /\ UNCHANGED <<reader, aliased, DEFAULT_DECODER_FACTORIES>>
            ELSE \E f \in {FactoriesInEffect(a, DEFAULT_DECODER_FACTORIES)},
                    open \in SeekingReader_open(container) :
                 IF open # None
                 THEN /\ result' = Raised(open)
                      /\ reader' = make_reader(f.list)
                      /\ aliased' = f.alias
                      /\ UNCHANGED DEFAULT_DECODER_FACTORIES
                 ELSE
                 \E d \in {Drain(container, make_reader(f.list), LogTimeOrder, <<>>)} :
                     /\ reader' = d.r
                     /\ aliased' = f.alias
                     /\ result' = IF d.ok
                                  THEN Returned([i \in 1..Len(d.value) |-> Item(d.value[i])])
                                  ELSE Raised(d.err)
                     /\ DEFAULT_DECODER_FACTORIES' =
                            WriteThrough(f.alias, d.r, DEFAULT_DECODER_FACTORIES)
    /\ pc' = "returned"
    /\ UNCHANGED <<container, installed, out, pulls>>
    /\ UNCHANGED notDecodeVars

\* The reader's order when log_time_order is not passed: it sorts ("specifying
\* log_time_order=false allows us to skip a sort() in the MCAP library").
ReaderDefaultLogTimeOrder == TRUE

\* foxglove_data_platform.client.Client.get_messages.  reader.iter_messages()
\* is called without an order argument.
LegacyGetMessages ==
    /\ pc = "idle"
    /\ \E mcap_found \in BOOLEAN, download_ok \in BOOLEAN :
         /\ op' = "legacy_get_messages"
         /\ IF ~mcap_found
            THEN result' = Raised("RuntimeError") /\ UNCHANGED reader
            ELSE IF ~download_ok
            THEN result' = Raised("HTTPError") /\ UNCHANGED reader
            ELSE \E open \in SeekingReader_open(container) :
                 IF open # None
                 THEN result' = Raised(open) /\ reader' = make_reader(<<>>)
                 ELSE
                 \E l \in {LegacyLoop(container, make_reader(<<>>), ReaderDefaultLogTimeOrder,
                                       installed, <<>>, <<>>, <<>>)} :
                   /\ result' = IF l.ok THEN Returned(l.value) ELSE Raised(l.err)
                   /\ reader' = [l.r EXCEPT !.made = l.made]
    /\ pc' = "returned"
    /\ UNCHANGED <<container, installed, DEFAULT_DECODER_FACTORIES, argument,
                   aliased, out, pulls>>
    /\ UNCHANGED notDecodeVars

\* The caller is done with the call's result, or drops the generator.
Finish ==
    /\ pc \in {"iterating", "returned"}
    /\ pc' = "idle"
    /\ op' = "none"
    /\ argument' = NoArgument
    /\ reader' = make_reader(<<>>)
    /\ aliased' = FALSE
    /\ out' = <<>>
    /\ pulls' = <<>>
    /\ result' = NoResult
    /\ UNCHANGED <<container, installed, DEFAULT_DECODER_FACTORIES>>
    /\ UNCHANGED notDecodeVars

Next == IterMessages \/ Pull \/ GetMessages \/ LegacyGetMessages \/ Finish

Spec == Init /\ [][Next]_vars

\* The same calls on containers whose framing is broken.
SpecMalformed == InitMalformed /\ [][Next]_vars

----------------------------------------------------------------------------
(* What a container holds, stated on its records alone.                    *)

IsMessage(rec) == rec.type = "Message"

\* The message records of the container, in file order.
MessageRecords == SelectSeq(container.records, IsMessage)
NumMessages == Len(MessageRecords)

ChannelById(id) == CHOOSE ch \in {C1, C2, C3, C4} : ch.id = id
SchemaById(id) == IF id = 0 THEN NoSchema ELSE CHOOSE sc \in {S1, S2, S3} : sc.id = id

\* The value a payload text stands for.
PayloadValue(text) ==
    CASE text = Level1Text -> [happy |-> TRUE, level |-> 1]
      [] text = Level2Text -> [happy |-> TRUE, level |-> 2]
      [] OTHER             -> [data |-> "string message 1"]

\* The payload is a document of its channel's message encoding.
PayloadOk(m) ==
    IF ChannelById(m.channel_id).message_encoding = "json"
    THEN m.data \in {Level1Text, Level2Text}
    ELSE m.data = Ros1Bytes

\* A definition record of this type and id occurs before position i.
DefinedBefore(i, type, id) ==
    \E j \in 1..(i - 1) :
        container.records[j].type = type /\ container.records[j].id = id

\* The factory list in effect for the current call of foxglove.client.
ListInEffect == IF argument.given THEN argument.list ELSE DEFAULT_DECODER_FACTORIES
KindsInEffect == { ListInEffect[i].kind : i \in DOMAIN ListInEffect }

\* Some factory in effect supports the channel's encoding.
Supported(ch) ==
    \E k \in KindsInEffect :
        /\ k = ch.message_encoding
        /\ (k = "json" \/ SchemaById(ch.schema_id).encoding = SchemaEncodingOf(k))

\* Record i cannot be processed by a call of foxglove.client.
Unprocessable(i) ==
    LET rec == container.records[i]
    IN  CASE rec.type = "Schema"  -> FALSE
          [] rec.type = "Channel" ->
               rec.schema_id # 0 /\ ~DefinedBefore(i, "Schema", rec.schema_id)
          [] OTHER ->
               \/ ~DefinedBefore(i, "Channel", rec.channel_id)
               \/ ~Supported(ChannelById(rec.channel_id))
               \/ ~PayloadOk(rec)

\* The first position from i on whose record cannot be processed (0: none).
RECURSIVE FirstBadFrom(_)
FirstBadFrom(i) ==
    IF i > Len(container.records) THEN 0
    ELSE IF Unprocessable(i) THEN i ELSE FirstBadFrom(i + 1)

FirstBad == FirstBadFrom(1)

MessagesBefore(i) ==
    Cardinality({ j \in 1..(i - 1) : IsMessage(container.records[j]) })

\* The pull that reaches the first record that cannot be processed (0: none).
BadPull == IF FirstBad = 0 THEN 0 ELSE MessagesBefore(FirstBad) + 1

\* The tuple of a message record.
ExpectedTuple(m) ==
    <<SchemaById(ChannelById(m.channel_id).schema_id), ChannelById(m.channel_id),
      m, PayloadValue(m.data)>>

Iterating == op = "iter_messages" /\ pc = "iterating"
Exhausted == pulls # <<>> /\ pulls[Len(pulls)] = "stop"

----------------------------------------------------------------------------
\* C1: for a container that is valid and whose encodings are all supported,
\* iter_messages yields exactly one tuple per message record, the i-th tuple
\* being the schema, channel, record and decoded payload of the i-th message
\* record, and then ends without an error.
C1_IterMessagesYieldsEveryMessage ==
    (Iterating /\ FirstBad = 0) =>
        \A n \in {NumMessages} :
            /\ Len(out) <= n
            /\ \A i \in 1..Len(out) : out[i] = ExpectedTuple(MessageRecords[i])
            /\ \A i \in 1..Len(pulls) :
                   pulls[i] = IF i <= n THEN "yield" ELSE "stop"
            /\ Exhausted => Len(out) = n
            /\ result.kind # "raise"

C1_Witness ==
    /\ Iterating /\ FirstBad = 0 /\ Exhausted
    /\ Len(out) = 3
    /\ out[1][2] # out[2][2]
    /\ out[1][1] # out[2][1]

----------------------------------------------------------------------------
\* C2: decode-time errors are raised at the offending record.  If the first
\* record that cannot be processed is reached by pull k, iter_messages gives
\* the tuples of the first k-1 messages on the first k-1 pulls and raises on
\* pull k; get_messages raises and returns no list.
C2_ErrorsRaisedAtOffendingRecord ==
    /\ Iterating =>
          \A k \in {BadPull} :
              k # 0 =>
                  /\ Len(out) < k
                  /\ \A i \in 1..Len(out) : out[i] = ExpectedTuple(MessageRecords[i])
                  /\ \A i \in 1..Len(pulls) :
                         pulls[i] = IF i < k THEN "yield"
                                    ELSE IF i = k THEN "raise" ELSE "stop"
                  /\ Len(pulls) >= k => result.kind = "raise"
    /\ (op = "get_messages" /\ pc = "returned" /\ result.kind = "return") =>
          FirstBad = 0
    /\ (op = "get_messages" /\ pc = "returned" /\ result.kind = "raise") =>
          result.value = <<>>

C2_Witness ==
    /\ Iterating /\ BadPull = 3
    /\ pulls = <<"yield", "yield", "raise">>
    /\ Len(out) = 2
    /\ NumMessages = 3

\* Messages whose channel is known but whose encoding no factory in effect
\* supports.
Unsupported(i) ==
    /\ IsMessage(container.records[i])
    /\ DefinedBefore(i, "Channel", container.records[i].channel_id)
    /\ ~Supported(ChannelById(container.records[i].channel_id))

RECURSIVE FirstUnsupportedFrom(_)
FirstUnsupportedFrom(i) ==
    IF i > Len(container.records) THEN 0
    ELSE IF Unsupported(i) THEN i ELSE FirstUnsupportedFrom(i + 1)

FirstUnsupported == FirstUnsupportedFrom(1)

\* C3: when no factory in effect supports a message's encoding, iter_messages
\* never yields a tuple for that message or for a later one, and the pull that
\* reaches the message raises the decoder-not-found error.
C3_UnsupportedEncodingRaises ==
    Iterating =>
        \A p \in {FirstUnsupported} :
            p # 0 =>
                \A u \in {MessagesBefore(p) + 1} :
                    /\ Len(out) < u
                    /\ \A i \in 1..Len(out) : out[i][3] = MessageRecords[i]
                    /\ (Len(pulls) >= u /\ FirstBad = p) =>
                           /\ pulls[u] = "raise"
                           /\ result = Raised("DecoderNotFound")

C3_Witness ==
    /\ Iterating /\ FirstUnsupported # 0 /\ FirstBad = FirstUnsupported
    /\ MessagesBefore(FirstUnsupported) = 1
    /\ NumMessages = 3
    /\ KindsInEffect # {}
    /\ pulls = <<"yield", "raise", "stop">>
    /\ Len(out) = 1
    /\ result = Raised("DecoderNotFound")

\* C4: with an empty factory list in effect (an empty list passed, or no list
\* passed while the module's default list is empty) get_messages on a
\* container with at least one message raises.
C4_EmptyFactoriesRaise ==
    ( /\ op = "get_messages" /\ pc = "returned"
      /\ IF argument.given THEN argument.list = <<>>
         ELSE DEFAULT_DECODER_FACTORIES = <<>>
      /\ NumMessages >= 1 ) =>
        result.kind = "raise"

C4_Witness ==
    /\ op = "get_messages" /\ pc = "returned"
    /\ ~argument.given /\ DEFAULT_DECODER_FACTORIES = <<>>
    /\ NumMessages = 3
    /\ result = Raised("DecoderNotFound")

\* The list get_messages returns for a container it can decode.
ExpectedItems ==
    [i \in 1..NumMessages |->
        <<ChannelById(MessageRecords[i].channel_id).topic, MessageRecords[i],
          PayloadValue(MessageRecords[i].data)>>]

\* Record i cannot be processed by the legacy get_messages.
LegacyUnprocessable(i) ==
    LET rec == container.records[i]
    IN  CASE rec.type = "Schema"  -> FALSE
          [] rec.type = "Channel" ->
               rec.schema_id # 0 /\ ~DefinedBefore(i, "Schema", rec.schema_id)
          [] OTHER ->
               \/ ~DefinedBefore(i, "Channel", rec.channel_id)
               \/ ChannelById(rec.channel_id).schema_id = 0
               \/ LET enc == SchemaById(ChannelById(rec.channel_id).schema_id).encoding
                  IN  \/ enc = "ros1msg" /\ "mcap_ros1" \notin installed
                      \/ enc = "ros1msg" /\ rec.data # Ros1Bytes
                      \/ enc = "jsonschema" /\ rec.data \notin {Level1Text, Level2Text}

LegacyValid == \A i \in 1..Len(container.records) : ~LegacyUnprocessable(i)

\* C5: get_messages drains the container into an ordered list: what it returns
\* has one (topic, message, decoded payload) item per message record, the i-th
\* item being that of the i-th message record, and a container whose records
\* can all be processed is returned, not refused.
C5_GetMessagesReturnsOrderedList ==
    /\ (op = "get_messages" /\ pc = "returned") =>
          /\ result.kind = "return" => result.value = ExpectedItems
          /\ (FirstBad = 0 /\ result.kind = "raise") => result.err = "HTTPError"
    /\ (op = "legacy_get_messages" /\ pc = "returned") =>
          /\ result.kind = "return" => result.value = ExpectedItems
          /\ (LegacyValid /\ result.kind = "raise") =>
                result.err \in {"HTTPError", "RuntimeError"}

C8_OutputInContainerOrder ==
    /\ Iterating => \A i \in 1..Len(out) : out[i][3] = MessageRecords[i]
    /\ (op \in {"get_messages", "legacy_get_messages"} /\ result.kind = "return") =>
           \A i \in 1..Len(result.value) : result.value[i][2] = MessageRecords[i]

\* Position of the k-th message record.
PositionOfMessage(k) ==
    CHOOSE p \in 1..Len(container.records) :
        IsMessage(container.records[p]) /\ MessagesBefore(p) = k - 1

\* End of the chunk that holds position p.
ChunkEnd(p) ==
    Min(Len(container.records), (((p - 1) \div container.chunk) + 1) * container.chunk)

LastPullYielded == pulls # <<>> /\ pulls[Len(pulls)] = "yield"

\* C9 as stated: when the k-th tuple is yielded the byte source has been read
\* up to the end of the k-th message record and no further.
C9_ReadUpToKthMessageRecord ==
    (Iterating /\ LastPullYielded) => reader.fetched = PositionOfMessage(Len(out))

\* C9, amended: iter_messages reads nothing before the first pull, and when
\* the k-th tuple is yielded the records up to the k-th message record have
\* been processed and the byte source has been read up to the end of the
\* chunk that holds that record, no further; no decoder is built ahead.
C9_ReadUpToChunkOfKthMessage ==
    Iterating =>
        /\ pulls = <<>> => (reader.pos = 0 /\ reader.fetched = 0 /\ reader.made = <<>>)
        /\ LastPullYielded =>
               \A p \in {PositionOfMessage(Len(out))} :
                   /\ reader.pos = p
                   /\ reader.fetched = ChunkEnd(p)
        /\ Len(reader.made) <= Len(pulls)
        /\ reader.fetched <= ChunkEnd(Min(Len(container.records), reader.pos + 1))

C9_Witness ==
    /\ Iterating /\ LastPullYielded
    /\ Len(out) = 1 /\ NumMessages = 3
    /\ reader.fetched = reader.pos + 1
    /\ reader.fetched < Len(container.records)

\* The Channel record at position i refers to a schema id no earlier Schema
\* record registered.
UnknownSchemaAt(i) ==
    /\ container.records[i].type = "Channel"
    /\ container.records[i].schema_id # 0
    /\ ~DefinedBefore(i, "Schema", container.records[i].schema_id)

RECURSIVE FirstUnknownSchemaFrom(_)
FirstUnknownSchemaFrom(i) ==
    IF i > Len(container.records) THEN 0
    ELSE IF UnknownSchemaAt(i) THEN i ELSE FirstUnknownSchemaFrom(i + 1)

FirstUnknownSchema == FirstUnknownSchemaFrom(1)

\* C10: a channel that refers to an unregistered schema id makes the call
\* raise the unknown-schema error; no tuple is yielded for a message of that
\* channel, and every schema yielded or given to a decoder is a registered
\* Schema record (or none, for schema id 0).
C10_UnknownSchemaRaises ==
    /\ \A k \in DOMAIN reader.decoders :
           reader.decoders[k].schema \in {0} \cup DOMAIN reader.schemas
    /\ Iterating =>
          /\ \A i \in 1..Len(out) :
                 /\ out[i][1] = SchemaById(out[i][2].schema_id)
                 /\ out[i][2].schema_id # 0 =>
                        DefinedBefore(PositionOfMessage(i), "Schema", out[i][2].schema_id)
          /\ \A p \in {FirstUnknownSchema} :
                 p # 0 =>
                     \A u \in {MessagesBefore(p) + 1} :
                         /\ Len(out) < u
                         /\ (Len(pulls) >= u /\ FirstBad = p) =>
                                /\ pulls[u] = "raise"
                                /\ result = Raised("UnknownSchema")
    /\ (pc = "returned" /\ op \in {"get_messages", "legacy_get_messages"}) =>
          \A p \in {FirstUnknownSchema} :
              p # 0 =>
                  /\ result.kind = "raise"
                  /\ (op = "get_messages" /\ FirstBad = p) =>
                         result.err \in {"UnknownSchema", "HTTPError"}

C10_Witness ==
    /\ Iterating /\ FirstUnknownSchema # 0 /\ FirstBad = FirstUnknownSchema
    /\ pulls = <<"yield", "raise">>
    /\ result = Raised("UnknownSchema")
    /\ NumMessages = 2
    /\ MessageRecords[2].channel_id = container.records[FirstUnknownSchema].id

\* The Message record at position i is on a channel id no earlier Channel
\* record registered.
UnknownChannelAt(i) ==
    /\ IsMessage(container.records[i])
    /\ ~DefinedBefore(i, "Channel", container.records[i].channel_id)

RECURSIVE FirstUnknownChannelFrom(_)
FirstUnknownChannelFrom(i) ==
    IF i > Len(container.records) THEN 0
    ELSE IF UnknownChannelAt(i) THEN i ELSE FirstUnknownChannelFrom(i + 1)

FirstUnknownChannel == FirstUnknownChannelFrom(1)

\* C11: a Message record on an unregistered channel id makes the iteration
\* raise the unknown-channel error at that record, and the failure ends the
\* stream: no tuple is yielded for that message or for a later one, and the
\* bulk calls raise.
C11_UnknownChannelIsFatal ==
    /\ Iterating =>
          \A p \in {FirstUnknownChannel} :
              p # 0 =>
                  \A u \in {MessagesBefore(p) + 1} :
                      /\ Len(out) < u
                      /\ (Len(pulls) >= u /\ FirstBad = p) =>
                             /\ pulls[u] = "raise"
                             /\ result = Raised("UnknownChannel")
                             /\ \A i \in (u + 1)..Len(pulls) : pulls[i] = "stop"
    /\ (pc = "returned" /\ op \in {"get_messages", "legacy_get_messages"}) =>
          \A p \in {FirstUnknownChannel} :
              p # 0 =>
                  /\ result.kind = "raise"
                  /\ (op = "get_messages" /\ FirstBad = p) =>
                         result.err \in {"UnknownChannel", "HTTPError"}
                  /\ (op = "legacy_get_messages" /\ FirstUnknownSchema \in {0} \cup (p..Len(container.records))) =>
                         result.err \in {"UnknownChannel", "HTTPError", "RuntimeError"}

C11_Witness ==
    /\ Iterating /\ FirstUnknownChannel # 0 /\ FirstBad = FirstUnknownChannel
    /\ NumMessages = 3
    /\ pulls = <<"yield", "raise", "stop">>
    /\ Len(out) = 1
    /\ result = Raised("UnknownChannel")

----------------------------------------------------------------------------
(* JSON payloads: json.dumps(...).encode("utf-8") in the writer of the     *)
(* fixtures and json.loads(data.decode("utf-8")) in the two JSON decoders. *)
(* A text is a sequence of characters, message data a sequence of bytes    *)
(* (two hexadecimal digits each).                                          *)

\* Largest level written to the JSON fixture.
MaxLevel == 10

Digits == <<"0", "1", "2", "3", "4", "5", "6", "7", "8", "9">>
IsDigit(c) == \E d \in 1..10 : Digits[d] = c
DigitValue(c) == (CHOOSE d \in 1..10 : Digits[d] = c) - 1

\* A character outside ASCII.
EAcute == "U+00E9"

\* Python values that json.dumps accepts and json.loads produces: None, bool,
\* int, str, list and dict (members in insertion order).
JValue(t, b, n, s, items, members) ==
    [t |-> t, b |-> b, n |-> n, s |-> s, items |-> items, members |-> members]
JNull == JValue("null", FALSE, 0, <<>>, <<>>, <<>>)
JBool(b) == JValue("bool", b, 0, <<>>, <<>>, <<>>)
JNumber(n) == JValue("num", FALSE, n, <<>>, <<>>, <<>>)
JString(s) == JValue("str", FALSE, 0, s, <<>>, <<>>)
JArray(items) == JValue("arr", FALSE, 0, <<>>, items, <<>>)
JObject(members) == JValue("obj", FALSE, 0, <<>>, <<>>, members)
Member(key, val) == [key |-> key, val |-> val]

KeyLevel == <<"l", "e", "v", "e", "l">>
KeyHappy == <<"h", "a", "p", "p", "y">>

\* {"level": i} and {"happy": True, "level": i}
LevelValue(i) == JObject(<<Member(KeyLevel, JNumber(i))>>)
MoodValue(i) == JObject(<<Member(KeyHappy, JBool(TRUE)), Member(KeyLevel, JNumber(i))>>)

RECURSIVE NatText(_)
NatText(n) ==
    IF n < 10 THEN <<Digits[n + 1]>>
    ELSE NatText(n \div 10) \o <<Digits[(n % 10) + 1]>>

IntText(n) == IF n < 0 THEN <<"-">> \o NatText(0 - n) ELSE NatText(n)

\* ensure_ascii: quotes and backslashes are escaped, characters outside ASCII
\* are written as \uXXXX.
EscapeChar(c) ==
    CASE c = "\"" -> <<"\\", "\"">>
      [] c = "\\" -> <<"\\", "\\">>
      [] c = EAcute -> <<"\\", "u", "0", "0", "e", "9">>
      [] OTHER -> <<c>>

RECURSIVE EscapeText(_)
EscapeText(s) == IF s = <<>> THEN <<>> ELSE EscapeChar(Head(s)) \o EscapeText(Tail(s))

StringText(s) == <<"\"">> \o EscapeText(s) \o <<"\"">>

\* json.dumps with the default separators ", " and ": ".
RECURSIVE json_dumps(_)
RECURSIVE ItemsText(_)
RECURSIVE MembersText(_)
ItemsText(items) ==
    IF items = <<>> THEN <<>>
    ELSE json_dumps(Head(items))
         \o (IF Len(items) = 1 THEN <<>> ELSE <<",", " ">> \o ItemsText(Tail(items)))

MembersText(members) ==
    IF members = <<>> THEN <<>>
    ELSE StringText(Head(members).key) \o <<":", " ">> \o json_dumps(Head(members).val)
         \o (IF Len(members) = 1 THEN <<>> ELSE <<",", " ">> \o MembersText(Tail(members)))

json_dumps(v) ==
    CASE v.t = "null" -> <<"n", "u", "l", "l">>
      [] v.t = "bool" -> IF v.b THEN <<"t", "r", "u", "e">> ELSE <<"f", "a", "l", "s", "e">>
      [] v.t = "num"  -> IntText(v.n)
      [] v.t = "str"  -> StringText(v.s)
      [] v.t = "arr"  -> <<"[">> \o ItemsText(v.items) \o <<"]">>
      [] OTHER        -> <<"{">> \o MembersText(v.members) \o <<"}">>

\* json.loads: a recursive-descent parse; a result is the value and the
\* position after it, or a failure.
ParseFail == [ok |-> FALSE, value |-> JNull, next |-> 0]
Parsed(value, next) == [ok |-> TRUE, value |-> value, next |-> next]

At(text, i) == IF i <= Len(text) THEN text[i] ELSE "EOF"

StartsWith(text, i, word) ==
    /\ i + Len(word) - 1 <= Len(text)
    /\ SubSeq(text, i, i + Len(word) - 1) = word

RECURSIVE SkipSpace(_, _)
SkipSpace(text, i) == IF At(text, i) = " " THEN SkipSpace(text, i + 1) ELSE i

RECURSIVE ParseDigits(_, _, _)
ParseDigits(text, i, acc) ==
    IF IsDigit(At(text, i))
    THEN ParseDigits(text, i + 1, acc * 10 + DigitValue(text[i]))
    ELSE Parsed(JNumber(acc), i)

ParseNumber(text, i) ==
    IF At(text, i) = "-"
    THEN IF IsDigit(At(text, i + 1))
         THEN \* the digits, negated
              CHOOSE r \in { Parsed(JNumber(0 - d.value.n), d.next) :
                             d \in {ParseDigits(text, i + 1, 0)} } : TRUE
         ELSE ParseFail
    ELSE IF IsDigit(At(text, i)) THEN ParseDigits(text, i, 0) ELSE ParseFail

\* The characters of a string up to its closing quote, escapes undone.
RECURSIVE ParseChars(_, _, _)
ParseChars(text, i, acc) ==
    CASE At(text, i) = "EOF" -> ParseFail
      [] At(text, i) = "\"" -> Parsed(JString(acc), i + 1)
      [] At(text, i) = "\\" ->
           CASE At(text, i + 1) = "\"" -> ParseChars(text, i + 2, Append(acc, "\""))
             [] At(text, i + 1) = "\\" -> ParseChars(text, i + 2, Append(acc, "\\"))
             [] At(text, i + 1) = "u" /\ StartsWith(text, i + 2, <<"0", "0", "e", "9">>) ->
                  ParseChars(text, i + 6, Append(acc, EAcute))
             [] OTHER -> ParseFail
      [] OTHER -> ParseChars(text, i + 1, Append(acc, At(text, i)))

RECURSIVE ParseValue(_, _)
RECURSIVE ParseItems(_, _, _)
RECURSIVE ParseMembers(_, _, _)

\* After a parsed item: a comma and the next item, or the closing bracket.
AfterItem(text, v, acc) ==
    IF ~v.ok THEN ParseFail
    ELSE CASE At(text, SkipSpace(text, v.next)) = "," ->
                ParseItems(text, SkipSpace(text, v.next) + 1, Append(acc, v.value))
           [] At(text, SkipSpace(text, v.next)) = "]" ->
                Parsed(JArray(Append(acc, v.value)), SkipSpace(text, v.next) + 1)
           [] OTHER -> ParseFail

ParseItems(text, i, acc) ==
    CHOOSE r \in { AfterItem(text, v, acc) : v \in {ParseValue(text, i)} } : TRUE

\* After a parsed key and value: a comma and the next member, or the closing
\* brace.
AfterMember(text, k, v, acc) ==
    IF ~v.ok THEN ParseFail
    ELSE CASE At(text, SkipSpace(text, v.next)) = "," ->
                ParseMembers(text, SkipSpace(text, v.next) + 1,
                             Append(acc, Member(k.value.s, v.value)))
           [] At(text, SkipSpace(text, v.next)) = "}" ->
                Parsed(JObject(Append(acc, Member(k.value.s, v.value))),
                       SkipSpace(text, v.next) + 1)
           [] OTHER -> ParseFail

\* After a parsed key: a colon and the value.
AfterKey(text, k, acc) ==
    IF ~k.ok THEN ParseFail
    ELSE IF At(text, SkipSpace(text, k.next)) # ":" THEN ParseFail
    ELSE CHOOSE r \in { AfterMember(text, k, v, acc) :
                        v \in {ParseValue(text, SkipSpace(text, k.next) + 1)} } : TRUE

ParseMembers(text, i, acc) ==
    IF At(text, SkipSpace(text, i)) # "\"" THEN ParseFail
    ELSE CHOOSE r \in { AfterKey(text, k, acc) :
                        k \in {ParseChars(text, SkipSpace(text, i) + 1, <<>>)} } : TRUE

ValueAt(text, i) ==
    CASE StartsWith(text, i, <<"n", "u", "l", "l">>) -> Parsed(JNull, i + 4)
      [] StartsWith(text, i, <<"t", "r", "u", "e">>) -> Parsed(JBool(TRUE), i + 4)
      [] StartsWith(text, i, <<"f", "a", "l", "s", "e">>) -> Parsed(JBool(FALSE), i + 5)
      [] At(text, i) = "\"" -> ParseChars(text, i + 1, <<>>)
      [] At(text, i) = "[" ->
           IF At(text, SkipSpace(text, i + 1)) = "]"
           THEN Parsed(JArray(<<>>), SkipSpace(text, i + 1) + 1)
           ELSE ParseItems(text, i + 1, <<>>)
      [] At(text, i) = "{" ->
           IF At(text, SkipSpace(text, i + 1)) = "}"
           THEN Parsed(JObject(<<>>), SkipSpace(text, i + 1) + 1)
           ELSE ParseMembers(text, i + 1, <<>>)
      [] OTHER -> ParseNumber(text, i)

ParseValue(text, i) == ValueAt(text, SkipSpace(text, i))

\* json.loads: the value of the whole text, or a JSONDecodeError.
json_loads(text) ==
    CHOOSE r \in { IF v.ok /\ SkipSpace(text, v.next) = Len(text) + 1
                   THEN [ok |-> TRUE, value |-> v.value, err |-> None]
                   ELSE [ok |-> FALSE, value |-> JNull, err |-> "JSONDecodeError"] :
                   v \in {ParseValue(text, 1)} } : TRUE

\* ASCII characters of a JSON text and their bytes.
AsciiChars ==
    <<" ", "\"", ",", "-", "0", "1", "2", "3", "4", "5", "6", "7", "8", "9", ":",
      "[", "\\", "]", "a", "b", "e", "f", "h", "l", "n", "p", "r", "s", "t", "u",
      "v", "y", "{", "}">>
AsciiBytes ==
    <<"20", "22", "2c", "2d", "30", "31", "32", "33", "34", "35", "36", "37", "38",
      "39", "3a", "5b", "5c", "5d", "61", "62", "65", "66", "68", "6c", "6e", "70",
      "72", "73", "74", "75", "76", "79", "7b", "7d">>

\* str.encode("utf-8") and bytes.decode("utf-8") on ASCII text.
EncodeChar(c) == AsciiBytes[CHOOSE k \in DOMAIN AsciiChars : AsciiChars[k] = c]
DecodeByte(b) == AsciiChars[CHOOSE k \in DOMAIN AsciiBytes : AsciiBytes[k] = b]
Utf8Encode(text) == [i \in 1..Len(text) |-> EncodeChar(text[i])]
Utf8Decode(data) == [i \in 1..Len(data) |-> DecodeByte(data[i])]

\* No decoding call is under way and the environment has no optional
\* decoder package.
DecodeIdle ==
    /\ container = Container(<<>>, 1, TRUE, 0)
    /\ installed = {}
    /\ DEFAULT_DECODER_FACTORIES = ImportDefaults({})
    /\ pc = "idle"
    /\ op = "none"
    /\ argument = NoArgument
    /\ reader = make_reader(<<>>)
    /\ aliased = FALSE
    /\ out = <<>>
    /\ pulls = <<>>
    /\ result = NoResult

\* Values written as JSON payloads: the fixture's documents and values of
\* every JSON type, with nesting, escapes and numbers of several digits.
JsonValues ==
    {JNull, JBool(TRUE), JBool(FALSE)}
    \cup { JNumber(n) : n \in (0 - 1)..MaxLevel }
    \cup { JString(t) : t \in { <<>>, <<"a">>, <<"a", "\"", "b">>, <<"\\">>, <<EAcute>>,
                                <<"n", "u", "l", "l">> } }
    \cup { LevelValue(i) : i \in 1..MaxLevel }
    \cup { MoodValue(i) : i \in 1..MaxLevel }
    \cup { JArray(<<>>), JObject(<<>>), JArray(<<JNumber(1), JNumber(2)>>),
           JArray(<<LevelValue(1), JNull>>),
           JObject(<<Member(<<"a">>, JArray(<<JBool(FALSE)>>)),
                     Member(<<"b">>, LevelValue(2))>>) }

NoPayload == [ok |-> FALSE, value |-> JNull, err |-> None]

DecoderNoDecode(message_content) == json_loads(message_content)

\* decoder of _JsonDecoderFactory.decoder_for
decoder(message_content) == json_loads(Utf8Decode(message_content))

\* JsonDecoder.decode of the legacy client
JsonDecoder_decode(data) == json_loads(Utf8Decode(data))

notJsonVars == <<decodeVars, progressVars, apiVars>>

InitJson ==
    /\ DecodeIdle
    /\ ProgressIdle
    /\ ApiIdle
    /\ json_value \in JsonValues
    /\ message_data = <<>>
    /\ json_pc = "value"
    /\ decoded_payload = NoPayload

\* The writer of the fixture: m = json.dumps(value).encode("utf-8"), added as
\* the data of a message.
WriteJsonMessage ==
    /\ json_pc = "value"
    /\ message_data' = Utf8Encode(json_dumps(json_value))
    /\ json_pc' = "written"
    /\ UNCHANGED <<json_value, decoded_payload>>
    /\ UNCHANGED notJsonVars

\* foxglove.client hands the message data to the factory's decoder.
DecodeWithFactoryDecoder ==
    /\ json_pc = "written"
    /\ decoded_payload' = decoder(message_data)
    /\ json_pc' = "decoder"
    /\ UNCHANGED <<json_value, message_data>>
    /\ UNCHANGED notJsonVars

\* The legacy client hands the message to JsonDecoder.decode.
DecodeWithJsonDecoder ==
    /\ json_pc = "written"
    /\ decoded_payload' = JsonDecoder_decode(message_data)
    /\ json_pc' = "JsonDecoder"
    /\ UNCHANGED <<json_value, message_data>>
    /\ UNCHANGED notJsonVars

NextJson == WriteJsonMessage \/ DecodeWithFactoryDecoder \/ DecodeWithJsonDecoder

SpecJson == InitJson /\ [][NextJson]_vars

\* C12: JSON round trip: the payload decoded for a message on a json channel
\* equals the value that was written as its payload, by either client's
\* decoder.
C12_JsonRoundTrip ==
    json_pc \in {"decoder", "JsonDecoder"} =>
        /\ decoded_payload.ok
        /\ decoded_payload.value = json_value

C12_Witness ==
    /\ json_pc = "decoder"
    /\ json_value = MoodValue(10)
    /\ Len(message_data) = 28
    /\ decoded_payload.ok
    /\ decoded_payload.value.members[2].val.n = 10

(***************************************************************************)
(* The progress-reporting reader of upload_data.  A source is the bytes    *)
(* object or the open binary stream handed to the reader; its bytes are    *)
(* numbered so that chunks can be told apart.                              *)
(***************************************************************************)

MaxData == 3    \* longest source, in bytes
MaxRead == 2    \* largest positive size asked of read
MaxCalls == 4   \* read calls followed on one reader

Last(s) == s[Len(s)]

Datas == { [i \in 1..L |-> i] : L \in 0..MaxData }

\* A stream is its bytes and its position.  A regular file may be handed
\* over at any position; a pipe has no size that fstat could give.
Stream(kind, data, pos) == [kind |-> kind, data |-> data, pos |-> pos]

Sources ==
    { Stream("bytes", d, 0) : d \in Datas }
    \cup { Stream("file", d, p) : d \in Datas, p \in 0..MaxData }
    \cup { Stream("pipe", d, 0) : d \in Datas }

UploadSources == { b \in Sources : b.pos <= Len(b.data) }

ReadSizes == {-1} \cup (1..MaxRead)

PbrModules ==
    {"foxglove.client", "foxglove_data_platform.client",
     "foxglove.data_platform.client"}

\* io: read(n) of a binary stream returns the bytes from the position to
\* the end (n < 0) or at most n of them, and moves the position.
StreamRead(b, n) ==
    LET end == IF n < 0 THEN Len(b.data) ELSE Min(Len(b.data), b.pos + n)
    IN  [chunk |-> SubSeq(b.data, b.pos + 1, end),
         buf |-> [b EXCEPT !.pos = end]]

BytesIO(data) == Stream("bytes", data, 0)

\* os.fstat(buf.fileno()).st_size: the size of a regular file, 0 for a pipe.
fstat_st_size(b) == IF b.kind = "file" THEN Len(b.data) ELSE 0

\* a or b of Python, for byte strings and for integers.
EmptyBytes(chunk) == <<>>
OrBytes(chunk) == IF chunk # <<>> THEN chunk ELSE <<>>
OrZero(length) == IF length # 0 THEN length ELSE 0

NoReader ==
    [module |-> "none", callback |-> FALSE, progress |-> 0, length |-> 0,
     buf |-> BytesIO(<<>>)]

\* The first ProgressBufferReader took bytes only and was itself the BytesIO.
Accepts(module, b) ==
    module = "foxglove.data_platform.client" => b.kind = "bytes"

ProgressBufferReader_init(module, b, callback) ==
    [module |-> module,
     callback |-> callback,
     progress |-> 0,
     length |-> IF b.kind = "bytes" THEN Len(b.data) ELSE fstat_st_size(b),
     buf |-> IF b.kind = "bytes" THEN BytesIO(b.data) ELSE b]

ProgressOfLastChunk(progress, chunk) == Len(chunk)
Accumulate(progress, chunk) == progress + Len(chunk)

\* The size handed to the callback.
ReportedSize(self) ==
    IF self.module = "foxglove.data_platform.client"
    THEN self.length
    ELSE OrZero(self.length)

InvokesOnData(self, chunk) == self.callback /\ chunk # <<>>

\* if self.__callback: whether read calls the callback.
Invokes(self, chunk) == self.callback

\* read(n): the chunk of the wrapped stream, the progress moved on by its
\* length, the callback called if there is one.
ProgressBufferReader_read(self, n) ==
    LET src == StreamRead(self.buf, n)
        chunk == IF self.module = "foxglove.data_platform.client"
                 THEN src.chunk
                 ELSE OrBytes(src.chunk)
        progress == Accumulate(self.progress, chunk)
    IN  [self |-> [self EXCEPT !.buf = src.buf, !.progress = progress],
         chunk |-> chunk,
         wrapped |-> src.chunk,
         calls |-> IF Invokes(self, chunk)
                   THEN << [size |-> ReportedSize(self), progress |-> progress] >>
                   ELSE <<>>]

TellPosition(self) == self.buf.pos

\* tell(): the progress counter; the first ProgressBufferReader has the
\* tell() of the BytesIO it is.
ProgressBufferReader_tell(self) ==
    IF self.module = "foxglove.data_platform.client"
    THEN self.buf.pos
    ELSE self.progress

\* __len__
ProgressBufferReader_len(self) == self.length

notProgressVars == <<decodeVars, jsonVars, apiVars>>

InitProgress ==
    /\ DecodeIdle
    /\ JsonIdle
    /\ ApiIdle
    /\ upload_source \in UploadSources
    /\ progress_reader = NoReader
    /\ callback_calls = <<>>
    /\ read_calls = <<>>
    /\ progress_pc = "new"

\* buffer = ProgressBufferReader(data, callback=callback)
Construct ==
    /\ progress_pc = "new"
    /\ \E module \in PbrModules, callback \in BOOLEAN :
          /\ Accepts(module, upload_source)
          /\ progress_reader' =
                 ProgressBufferReader_init(module, upload_source, callback)
    /\ progress_pc' = "open"
    /\ UNCHANGED <<upload_source, callback_calls, read_calls>>
    /\ UNCHANGED notProgressVars

\* One read call of the consumer of the reader.
Read ==
    /\ progress_pc = "open"
    /\ Len(read_calls) < MaxCalls
    /\ \E n \in ReadSizes :
          \E r \in {ProgressBufferReader_read(progress_reader, n)} :
              /\ progress_reader' = r.self
              /\ callback_calls' = callback_calls \o r.calls
              /\ read_calls' = Append(read_calls,
                     [n |-> n, chunk |-> r.chunk, wrapped |-> r.wrapped,
                      tell |-> ProgressBufferReader_tell(r.self),
                      len |-> ProgressBufferReader_len(r.self)])
    /\ UNCHANGED <<upload_source, progress_pc>>
    /\ UNCHANGED notProgressVars

NextProgress == Construct \/ Read

SpecProgress == InitProgress /\ [][NextProgress]_vars

Drained ==
    /\ progress_pc = "open"
    /\ read_calls # <<>>
    /\ progress_reader.buf.pos = Len(upload_source.data)

\* C13: when a buffer of L bytes is read through the reader with a callback,
\* then after any sequence of reads that drains the buffer the callback has
\* been called and the progress of its last call is L.
C13_FinalProgressIsLength ==
    (Drained /\ upload_source.kind = "bytes" /\ progress_reader.callback) =>
        /\ callback_calls # <<>>
        /\ Last(callback_calls).progress = Len(upload_source.data)

C13_Witness ==
    /\ Drained
    /\ upload_source = Stream("bytes", <<1, 2, 3>>, 0)
    /\ progress_reader.callback
    /\ Len(read_calls) = 3
    /\ read_calls[1].n = 1
    /\ read_calls[2].n = 2
    /\ read_calls[3].chunk = <<>>
    /\ callback_calls =
         << [size |-> 3, progress |-> 1], [size |-> 3, progress |-> 3],
            [size |-> 3, progress |-> 3] >>

\* The source has a size that can be known before it is read.
SizeKnown(b) == b.kind \in {"bytes", "file"}

\* C14: the reader determines the total size at construction when it wraps a
\* fixed-size buffer or a seekable file handle, and when the total size is
\* not known no call of the callback reports the size as 0.
C14_UnknownSizeNeverZero ==
    progress_pc = "open" =>
        /\ SizeKnown(upload_source) =>
               progress_reader.length = Len(upload_source.data)
        /\ ~SizeKnown(upload_source) =>
               \A i \in DOMAIN callback_calls : callback_calls[i].size # 0

\* The chunks the wrapped source itself returns for read calls of the sizes
\* ns, made on it from the state in which it was handed over.
RECURSIVE WrappedChunks(_, _)
WrappedChunks(b, ns) ==
    IF ns = <<>>
    THEN <<>>
    ELSE \* the source read directly
         LET r == StreamRead(b, Head(ns))
         IN  <<r.chunk>> \o WrappedChunks(r.buf, Tail(ns))

RECURSIVE Concat(_)
Concat(chunks) ==
    IF chunks = <<>> THEN <<>> ELSE Head(chunks) \o Concat(Tail(chunks))

ReadSizesAsked == [i \in DOMAIN read_calls |-> read_calls[i].n]
ChunksReturned == [i \in DOMAIN read_calls |-> read_calls[i].chunk]

Host == "api.foxglove.dev"
Url(path) == <<"https://", Host>> \o path

EmptyDict == [k \in {} |-> ""]

KeepNulls(params) == params
without_nulls(params) ==
    [key \in {k \in DOMAIN params : params[k] # None} |-> params[key]]

\* datetime.astimezone().isoformat()
DateTimes == {"datetime_1", "datetime_2"}
isoformat(dt) ==
    CASE dt = "datetime_1" -> "2020-01-01T00:00:00+00:00"
      [] dt = "datetime_2" -> "2020-01-01T00:00:10+00:00"

\* A request as a method prepares it, without headers of its own.
Request(method, url, json, body) ==
    [method |-> method, url |-> url, json |-> json, body |-> body,
     headers |-> EmptyDict]

\* Header values are texts in parts; the token is the client's secret.
Token == "token_1"
Bearer(token) == <<"Bearer ", token>>

\* The headers Client.__init__ sets: on its session in foxglove.client, in
\* self.__headers in foxglove_data_platform.
ClientHeaders ==
    [n \in {"Content-type", "Authorization"} |->
        IF n = "Authorization" THEN Bearer(Token) ELSE <<"application/json">>]

\* requests keeps headers in a dict whose keys compare without case.
Lower(name) ==
    CASE name \in {"Content-type", "Content-Type"} -> "content-type"
      [] name = "Authorization" -> "authorization"
      [] OTHER -> name
CaseInsensitive(d) ==
    [k \in { Lower(n) : n \in DOMAIN d } |->
        d[CHOOSE n \in DOMAIN d : Lower(n) = k]]

\* requests.sessions.merge_setting: the session's headers, updated with
\* those of the request.
merge_setting(request_setting, session_setting) ==
    LET r == CaseInsensitive(request_setting)
        ses == CaseInsensitive(session_setting)
    IN  [k \in DOMAIN r \cup DOMAIN ses |-> IF k \in DOMAIN r THEN r[k] ELSE ses[k]]

\* self.__session.request(...): sent with the session's headers merged in.
Session_request(request, headers) ==
    [request EXCEPT !.headers = merge_setting(headers, ClientHeaders)]

\* requests.request(..., headers=headers): sent with these headers only.
requests_request(request, headers) ==
    [request EXCEPT !.headers = CaseInsensitive(headers)]

\* Responses of the API: a status line and a body that is a JSON object, a
\* JSON array or no JSON at all.
Statuses == {200, 400, 404, 500}
ReasonPhrase(status) ==
    CASE status = 200 -> "OK"
      [] status = 400 -> "Bad Request"
      [] status = 404 -> "Not Found"
      [] status = 500 -> "Internal Server Error"
      [] OTHER -> ""
StatusText(status) ==
    CASE status = 200 -> "200"
      [] status = 400 -> "400"
      [] status = 404 -> "404"
      [] status = 500 -> "500"
      [] OTHER -> ""

UploadLink == "https://storage/upload"
StreamLink == "https://storage/stream"

Body(kind, fields) == [kind |-> kind, fields |-> fields]
Bodies ==
    { Body("dict", f) :
        f \in { EmptyDict,
                [error |-> "device not found"],
                [link |-> UploadLink],
                [error |-> "partial", link |-> StreamLink],
                [id |-> "dev_1", name |-> "name_1"],
                [id |-> "evt_1", deviceId |-> "dev_1", device |-> "name_1",
                 start |-> isoformat("datetime_1"),
                 end |-> isoformat("datetime_2"), metadata |-> "{}",
                 createdAt |-> isoformat("datetime_1"),
                 updatedAt |-> isoformat("datetime_1")] } }
    \cup { Body("list", EmptyDict), Body("text", EmptyDict) }

Response(status, reason, body) ==
    [status_code |-> status, reason |-> reason, body |-> body]
Responses == { Response(st, ReasonPhrase(st), b) : st \in Statuses, b \in Bodies }
NoResponse == Response(0, "", Body("text", EmptyDict))

\* What a step of a method comes to: nothing yet, a returned value (a JSON
\* value or bytes), or a raised error with its message and, for an
\* HTTPError, the reason of its response.
Outcome(kind, err, message, reason, json, bytes) ==
    [kind |-> kind, err |-> err, message |-> message, reason |-> reason,
     json |-> json, bytes |-> bytes]
NoOutcome == Outcome("none", None, <<>>, None, Body("text", EmptyDict), <<>>)
ReturnJson(json) == Outcome("return", None, <<>>, None, json, <<>>)
ReturnBytes(bytes) == Outcome("return", None, <<>>, None, Body("text", EmptyDict), bytes)
RaiseError(err, message) ==
    Outcome("raise", err, message, None, Body("text", EmptyDict), <<>>)
HTTPError(message, response) ==
    Outcome("raise", "HTTPError", message, response.reason,
            Body("text", EmptyDict), <<>>)

\* requests: Response.raise_for_status()
raise_for_status(response) ==
    IF 400 <= response.status_code /\ response.status_code < 500
    THEN HTTPError(<<StatusText(response.status_code), "Client Error",
                     response.reason>>, response)
    ELSE IF 500 <= response.status_code /\ response.status_code < 600
    THEN HTTPError(<<StatusText(response.status_code), "Server Error",
                     response.reason>>, response)
    ELSE NoOutcome

\* dict.get(key, default)
Get(fields, key, default) == IF key \in DOMAIN fields THEN fields[key] ELSE default

KeepReason(response) == response.reason
ReasonFromError(response) == Get(response.body.fields, "error", response.reason)

json_or_raise(response) ==
    IF response.body.kind = "text"
    THEN HTTPError(<<"500", "Server Error", "Unexpected format">>, response)
    ELSE IF /\ 400 <= response.status_code
            /\ response.status_code < 500
            /\ response.body.kind # "dict"
    THEN RaiseError("AttributeError", <<"get">>)
    ELSE LET r == IF 400 <= response.status_code /\ response.status_code < 500
                  THEN [response EXCEPT !.reason = ReasonFromError(response)]
                  ELSE response
             raised == raise_for_status(r)
         IN  IF raised.kind = "raise" THEN raised ELSE ReturnJson(response.body)

\* json[key] of a parsed body.
Subscript(json, key) ==
    IF json.kind # "dict"
    THEN RaiseError("TypeError", <<key>>)
    ELSE IF key \notin DOMAIN json.fields
    THEN RaiseError("KeyError", <<key>>)
    ELSE NoOutcome

\* The methods' device arguments.
DeviceIds == {None, "dev_1"}
DeviceNames == {None, "name_1"}

DownloadOps == {"download_data", "download_recording_data", "download_attachment"}

DownloadArguments(method) ==
    CASE method = "download_data" ->
           { [device_id |-> i, device_name |-> n, start |-> "datetime_1",
              end |-> "datetime_2", topics |-> "[]", output_format |-> "mcap"] :
               i \in DeviceIds, n \in DeviceNames }
      [] method = "download_recording_data" ->
           { [id |-> i, key |-> k, include_attachments |-> "False",
              output_format |-> "mcap"] :
               i \in {None, "rec_1"}, k \in {None, "key_1"} }
      [] method = "download_attachment" -> { [id |-> "att_1"] }

\* The part of a download before the stream is opened: the arguments are
\* checked, the link is asked of the API and taken from its answer.
LinkStep(method, a, response) ==
    CASE method = "download_attachment" ->
           [sent |-> <<>>, response |-> NoResponse, json |-> NoOutcome,
            result |-> NoOutcome,
            url |-> Url(<<"/v1/recording-attachments/", a.id, "/download">>)]
      [] OTHER ->
           LET missing ==
                   IF method = "download_data"
                   THEN a.device_id = None /\ a.device_name = None
                   ELSE a.id = None /\ a.key = None
               params ==
                   IF method = "download_data"
                   THEN [deviceId |-> a.device_id, deviceName |-> a.device_name,
                         end |-> isoformat(a.end),
                         outputFormat |-> a.output_format,
                         start |-> isoformat(a.start), topics |-> a.topics]
                   ELSE [recordingId |-> a.id, key |-> a.key,
                         includeAttachments |-> a.include_attachments,
                         outputFormat |-> a.output_format]
               json == json_or_raise(response)
               link == Subscript(json.json, "link")
           IN  IF missing
               THEN [sent |-> <<>>, response |-> NoResponse, json |-> NoOutcome,
                     result |-> RaiseError("RuntimeError", <<"must be provided">>),
                     url |-> <<>>]
               ELSE [sent |-> << Session_request(
                                     Request("POST", Url(<<"/v1/data/stream">>),
                                             without_nulls(params), <<>>),
                                     EmptyDict) >>,
                     response |-> response,
                     json |-> json,
                     result |-> IF json.kind = "raise" THEN json ELSE link,
                     url |-> IF json.kind = "raise" \/ link.kind = "raise"
                             THEN <<>>
                             ELSE <<json.json.fields.link>>]

\* BytesIO of the download: write at the end, tell the position.
Overwrite(d, chunk) == chunk
BytesIO_write(d, chunk) == d \o chunk
BytesIO_tell(d) == Len(d)

NoStream == [remaining |-> <<>>, chunks |-> <<>>]

notApiVars == <<decodeVars, jsonVars, progressVars>>

InitApi ==
    /\ DecodeIdle
    /\ JsonIdle
    /\ ProgressIdle
    /\ api_pc = "idle"
    /\ api_call = [method |-> "none", args |-> EmptyDict, callback |-> FALSE]
    /\ sent = <<>>
    /\ api_response = NoResponse
    /\ api_json = NoOutcome
    /\ link_response = NoResponse
    /\ stream = NoStream
    /\ data_io = <<>>
    /\ progress_calls = <<>>
    /\ api_result = NoOutcome

\* download_data, download_recording_data, download_attachment up to the
\* loop of _download_stream_with_progress: session.get(url, stream=True),
\* response.raise_for_status(), data = BytesIO().
StartDownload ==
    /\ api_pc = "idle"
    /\ \E method \in DownloadOps, callback \in BOOLEAN :
       \E a \in DownloadArguments(method), response \in Responses :
       \E l \in {LinkStep(method, a, response)} :
          /\ api_call' = [method |-> method, args |-> a, callback |-> callback]
          /\ api_response' = l.response
          /\ api_json' = l.json
          /\ \/ /\ l.result.kind = "raise"
                /\ sent' = l.sent
                /\ api_result' = l.result
                /\ api_pc' = "done"
                /\ stream' = NoStream
                /\ link_response' = NoResponse
             \/ /\ l.result.kind # "raise"
                /\ sent' = Append(l.sent,
                                   Session_request(
                                       Request("GET", l.url, EmptyDict, <<>>),
                                       EmptyDict))
                /\ \E status \in {200, 404}, served \in Datas :
                   \E got \in {Response(status, ReasonPhrase(status),
                                        Body("text", EmptyDict))} :
                   \E raised \in {raise_for_status(got)} :
                      /\ link_response' = got
                      /\ IF raised.kind = "raise"
                         THEN /\ api_result' = raised
                              /\ api_pc' = "done"
                              /\ stream' = NoStream
                         ELSE /\ api_result' = NoOutcome
                              /\ api_pc' = "streaming"
                              /\ stream' = [remaining |-> served, chunks |-> <<>>]
    /\ data_io' = <<>>
    /\ progress_calls' = <<>>
    /\ UNCHANGED notApiVars

\* One turn of the loop: a chunk arrives, is written, and is reported.
ReceiveChunk ==
    /\ api_pc = "streaming"
    /\ stream.remaining # <<>>
    /\ \E k \in 1..Len(stream.remaining) :
       \E chunk \in {SubSeq(stream.remaining, 1, k)} :
       \E d \in {BytesIO_write(data_io, chunk)} :
          /\ stream' = [remaining |-> SubSeq(stream.remaining, k + 1,
                                            Len(stream.remaining)),
                        chunks |-> Append(stream.chunks, chunk)]
          /\ data_io' = d
          /\ progress_calls' = IF api_call.callback
                               THEN Append(progress_calls, BytesIO_tell(d))
                               ELSE progress_calls
    /\ UNCHANGED <<api_pc, api_call, sent, api_response, api_json, link_response,
                   api_result>>
    /\ UNCHANGED notApiVars

\* The stream has ended: return data.getvalue().
FinishDownload ==
    /\ api_pc = "streaming"
    /\ stream.remaining = <<>>
    /\ api_result' = ReturnBytes(data_io)
    /\ api_pc' = "done"
    /\ UNCHANGED <<api_call, sent, api_response, api_json, link_response, stream,
                   data_io, progress_calls>>
    /\ UNCHANGED notApiVars

\* a or b of Python for optional strings.
Or(a, b) == IF a \notin {None, ""} THEN a ELSE b

\* The first of the keys that the parsed body cannot be subscripted with.
RECURSIVE Subscripts(_, _)
Subscripts(json, keys) ==
    IF keys = <<>>
    THEN NoOutcome
    ELSE \* keys are read in the order of the dict display
         LET r == Subscript(json, Head(keys))
         IN  IF r.kind = "raise" THEN r ELSE Subscripts(json, Tail(keys))

\* A method that sends one request with a JSON body and returns a dict made
\* of members of the answer: the request, json_or_raise, the subscripts.
RequestStep(request, response, keys) ==
    LET json == json_or_raise(response)
        missing == Subscripts(json.json, keys)
    IN  [sent |-> <<request>>, response |-> response, json |-> json,
         result |-> IF json.kind = "raise" THEN json
                    ELSE IF missing.kind = "raise" THEN missing
                    ELSE json]

\* A method that raises before it sends anything.
RaisedBeforeRequest(err, message) ==
    [sent |-> <<>>, response |-> NoResponse, json |-> NoOutcome,
     result |-> RaiseError(err, message)]

create_device(a, response) ==
    RequestStep(
        Session_request(
            Request("POST", Url(<<"/v1/devices">>),
                    without_nulls([name |-> a.name, properties |-> a.properties,
                                   projectId |-> a.project_id]), <<>>),
            EmptyDict),
        response, <<"id", "name">>)

update_device(a, response) ==
    IF a.device_name \notin {None, ""} /\ a.device_id \notin {None, ""}
    THEN RaisedBeforeRequest("RuntimeError", <<"mutually exclusive">>)
    ELSE IF a.device_name = None /\ a.device_id = None
    THEN RaisedBeforeRequest("RuntimeError", <<"must be provided">>)
    ELSE RequestStep(
             Session_request(
                 Request("PATCH",
                         Url(<<"/v1/devices/", Or(a.device_name, a.device_id)>>),
                         without_nulls([name |-> a.new_name,
                                        properties |-> a.properties]), <<>>),
                 EmptyDict),
             response, <<"id", "name">>)

\* A method that returns nothing.
ReturnNone == Outcome("return", None, <<>>, None, Body("none", EmptyDict), <<>>)

get_device(a, response) ==
    IF a.device_name \notin {None, ""} /\ a.device_id \notin {None, ""}
    THEN RaisedBeforeRequest("RuntimeError", <<"mutually exclusive">>)
    ELSE IF a.device_name = None /\ a.device_id = None
    THEN RaisedBeforeRequest("RuntimeError", <<"must be provided">>)
    ELSE RequestStep(
             Session_request(
                 Request("GET",
                         Url(<<"/v1/devices/", Or(a.device_name, a.device_id)>>),
                         EmptyDict, <<>>),
                 EmptyDict),
             response, <<"id", "name">>)

delete_device(a, response) ==
    IF a.device_name \notin {None, ""} /\ a.device_id \notin {None, ""}
    THEN RaisedBeforeRequest("RuntimeError", <<"mutually exclusive">>)
    ELSE IF a.device_name = None /\ a.device_id = None
    THEN RaisedBeforeRequest("RuntimeError", <<"must be provided">>)
    ELSE LET r == RequestStep(
                      Session_request(
                          Request("DELETE",
                                  Url(<<"/v1/devices/",
                                        Or(a.device_name, a.device_id)>>),
                                  EmptyDict, <<>>),
                          EmptyDict),
                      response, <<>>)
         IN  [r EXCEPT !.result = IF @.kind = "raise" THEN @ ELSE ReturnNone]

DefaultEndLater(start, end) == IF end = None THEN "datetime_2" ELSE end
EndOrStart(start, end) == IF end = None THEN start ELSE end

EventKeys ==
    <<"id", "deviceId", "device", "start", "end", "metadata", "createdAt",
      "updatedAt">>

create_event(a, response) ==
    LET end == EndOrStart(a.start, a.end)
    IN  IF a.device_id = None /\ a.device_name = None
        THEN RaisedBeforeRequest("RuntimeError", <<"must be provided">>)
        ELSE RequestStep(
                 Session_request(
                     Request("POST", Url(<<"/v1/events">>),
                             without_nulls([deviceId |-> a.device_id,
                                            deviceName |-> a.device_name,
                                            start |-> isoformat(a.start),
                                            end |-> isoformat(end),
                                            metadata |-> a.metadata]), <<>>),
                     EmptyDict),
                 response, EventKeys)

\* create_event of foxglove_data_platform: device_id is required, there is
\* no device_name, and the body is sent as it is.
legacy_create_event(a, response) ==
    LET end == EndOrStart(a.start, a.end)
    IN  RequestStep(
            requests_request(
                Request("POST", Url(<<"/v1/events">>),
                        [deviceId |-> a.device_id, start |-> isoformat(a.start),
                         end |-> isoformat(end), metadata |-> a.metadata], <<>>),
                ClientHeaders),
            response, EventKeys)

\* upload_data up to the link; the upload itself follows in UploadData.
upload_data(a, response) ==
    RequestStep(
        Session_request(
            Request("POST", Url(<<"/v1/data/upload">>),
                    without_nulls([deviceId |-> a.device_id,
                                   deviceName |-> a.device_name,
                                   filename |-> a.filename, key |-> a.key,
                                   projectId |-> a.project_id]), <<>>),
            EmptyDict),
        response, <<"link">>)

Properties == {None, "{}", "{\"sn\": \"1\"}"}
ProjectIds == {None, "prj_123"}

RequestOps ==
    {"create_device", "update_device", "create_event", "legacy_create_event",
     "get_device", "delete_device"}

\* What a caller can pass for an optional string: nothing, the empty
\* string, a value.
Selectors(value) == {None, "", value}

RequestArguments(method) ==
    CASE method = "create_device" ->
           { [name |-> "name_1", properties |-> p, project_id |-> j] :
               p \in Properties, j \in ProjectIds }
      [] method = "update_device" ->
           { [device_id |-> i, device_name |-> n, new_name |-> w,
              properties |-> p] :
               i \in Selectors("dev_1"), n \in Selectors("name_1"),
               w \in {None, "name_2"}, p \in Properties }
      [] method \in {"get_device", "delete_device"} ->
           { [device_id |-> i, device_name |-> n] :
               i \in Selectors("dev_1"), n \in Selectors("name_1") }
      [] method = "create_event" ->
           { [device_id |-> i, device_name |-> n, start |-> st, end |-> e,
              metadata |-> md] :
               i \in DeviceIds, n \in DeviceNames, st \in DateTimes,
               e \in {None} \cup DateTimes, md \in {None, "{}"} }
      [] method = "legacy_create_event" ->
           { [device_id |-> "dev_1", start |-> st, end |-> e, metadata |-> md] :
               st \in DateTimes, e \in {None} \cup DateTimes, md \in {None, "{}"} }

MethodStep(method, a, response) ==
    CASE method = "create_device" -> create_device(a, response)
      [] method = "update_device" -> update_device(a, response)
      [] method = "create_event" -> create_event(a, response)
      [] method = "legacy_create_event" -> legacy_create_event(a, response)
      [] method = "get_device" -> get_device(a, response)
      [] method = "delete_device" -> delete_device(a, response)

\* create_device, update_device, create_event: one request at most, then the
\* record made of the answer is returned or the error raised.
CallMethod ==
    /\ api_pc = "idle"
    /\ \E method \in RequestOps :
       \E a \in RequestArguments(method), response \in Responses :
       \E r \in {MethodStep(method, a, response)} :
          /\ api_call' = [method |-> method, args |-> a, callback |-> FALSE]
          /\ sent' = r.sent
          /\ api_response' = r.response
          /\ api_json' = r.json
          /\ api_result' = r.result
    /\ api_pc' = "done"
    /\ link_response' = NoResponse
    /\ UNCHANGED <<stream, data_io, progress_calls>>
    /\ UNCHANGED notApiVars

\* The headers upload_data passes with the PUT.
OctetStream == [n \in {"Content-Type"} |-> <<"application/octet-stream">>]

\* The data sources handed to upload_data.
UploadDatas == { b \in UploadSources : Len(b.data) = MaxData }

\* The block size the transport reads the body with.
BlockSize == MaxRead

\* The transport sends a body that has read(): blocks are read until one
\* comes back empty.
RECURSIVE SendBody(_, _, _)
SendBody(self, chunks, calls) ==
    LET r == ProgressBufferReader_read(self, BlockSize)
    IN  IF r.chunk = <<>>
        THEN [self |-> r.self, chunks |-> chunks, calls |-> calls \o r.calls]
        ELSE SendBody(r.self, Append(chunks, r.chunk), calls \o r.calls)

\* What is left of a source from its position on.
Rest(b) == SubSeq(b.data, b.pos + 1, Len(b.data))

PutOrRaise(link, response) ==
    LET raised == raise_for_status(response)
    IN  IF raised.kind = "raise" THEN raised
        ELSE ReturnJson(Body("dict",
                 [link |-> link, text |-> "",
                  code |-> StatusText(response.status_code)]))

\* The dict upload_data returns after the PUT.
PutOutcome(link, response) ==
    ReturnJson(Body("dict",
        [link |-> link, text |-> "", code |-> StatusText(response.status_code)]))

\* upload_data: the link is asked for, then the data is put to it through
\* the progress reader; the answer of the storage is returned as it comes.
UploadData ==
    /\ api_pc = "idle"
    /\ \E i \in DeviceIds, n \in DeviceNames, k \in {None, "key_1"},
          j \in ProjectIds, callback \in BOOLEAN, response \in Responses,
          status \in {200, 404, 500}, data \in UploadDatas :
       \E a \in {[device_id |-> i, device_name |-> n, key |-> k,
                  filename |-> "test_file.mcap", project_id |-> j,
                  data |-> data]} :
       \E r \in {upload_data(a, response)} :
          /\ api_call' = [method |-> "upload_data", args |-> a,
                          callback |-> callback]
          /\ api_response' = r.response
          /\ api_json' = r.json
          /\ IF r.result.kind = "raise"
             THEN /\ sent' = r.sent
                  /\ api_result' = r.result
                  /\ link_response' = NoResponse
                  /\ stream' = [remaining |-> Rest(data), chunks |-> <<>>]
                  /\ progress_calls' = <<>>
             ELSE \E buffer \in {ProgressBufferReader_init("foxglove.client", data,
                                                          callback)},
                     got \in {Response(status, ReasonPhrase(status),
                                       Body("text", EmptyDict))} :
                  \E body \in {SendBody(buffer, <<>>, <<>>)} :
                  /\ sent' = Append(r.sent,
                          Session_request(
                              Request("PUT", <<r.json.json.fields.link>>,
                                      EmptyDict, Concat(body.chunks)),
                              OctetStream))
                  /\ link_response' = got
                  /\ stream' = [remaining |-> Rest(body.self.buf),
                                chunks |-> body.chunks]
                  /\ progress_calls' = body.calls
                  /\ api_result' = PutOutcome(r.json.json.fields.link, got)
    /\ api_pc' = "done"
    /\ data_io' = <<>>
    /\ UNCHANGED notApiVars

\* iter_messages returns the generator over the reader it made.
ReturnGenerator ==
    Outcome("return", None, <<>>, None, Body("generator", EmptyDict), <<>>)

NeverRaises(response) == NoOutcome

\* response.raise_for_status() on the answer to the GET of the stream link.
StreamStatus(response) == raise_for_status(response)

\* The HTTP part of iter_messages: _make_stream_link (the selector check,
\* POST /v1/data/stream, json_or_raise, json["link"]), the GET of the link
\* as a stream, raise_for_status, and the reader made over response.raw,
\* which has read nothing when the generator is returned.
IterMessagesCall ==
    /\ api_pc = "idle"
    /\ \E a \in DownloadArguments("download_data"), response \in Responses :
       \E l \in {LinkStep("download_data", a, response)} :
          /\ api_call' = [method |-> "iter_messages", args |-> a, callback |-> FALSE]
          /\ api_response' = l.response
          /\ api_json' = l.json
          /\ \/ /\ l.result.kind = "raise"
                /\ sent' = l.sent
                /\ api_result' = l.result
                /\ stream' = NoStream
                /\ link_response' = NoResponse
             \/ /\ l.result.kind # "raise"
                /\ sent' = Append(l.sent,
                                   Session_request(
                                       Request("GET", l.url, EmptyDict, <<>>),
                                       EmptyDict))
                /\ \E status \in {200, 404, 500}, served \in Datas :
                   \E got \in {Response(status, ReasonPhrase(status),
                                        Body("text", EmptyDict))} :
                   \E raised \in {StreamStatus(got)} :
                      /\ link_response' = got
                      /\ IF raised.kind = "raise"
                         THEN /\ api_result' = raised
                              /\ stream' = NoStream
                         ELSE /\ api_result' = ReturnGenerator
                              /\ stream' = [remaining |-> served, chunks |-> <<>>]
    /\ api_pc' = "done"
    /\ data_io' = <<>>
    /\ progress_calls' = <<>>
    /\ UNCHANGED notApiVars

NextApi ==
    \/ StartDownload \/ ReceiveChunk \/ FinishDownload \/ CallMethod \/ UploadData
    \/ IterMessagesCall

SpecApi == InitApi /\ [][NextApi]_vars

Downloading == api_pc \in {"streaming", "done"} /\ api_call.method \in DownloadOps

\* The lengths of the prefixes of a sequence of chunks.
Cumulative(chunks) == [i \in DOMAIN chunks |-> Len(Concat(SubSeq(chunks, 1, i)))]

\* C16: a download returns the concatenation of the chunks served, in
\* arrival order; a callback, if given, has been called once after each
\* chunk with the number of bytes accumulated so far, so its values never
\* decrease and the last one is the length of the data returned.
C16_DownloadReturnsServedBytes ==
    Downloading =>
        /\ data_io = Concat(stream.chunks)
        /\ api_call.callback => progress_calls = Cumulative(stream.chunks)
        /\ ~api_call.callback => progress_calls = <<>>
        /\ \A i \in 1..(Len(progress_calls) - 1) :
               progress_calls[i] <= progress_calls[i + 1]
        /\ (api_pc = "done" /\ api_result.kind = "return") =>
               /\ api_result.bytes = Concat(stream.chunks)
               /\ stream.remaining = <<>>
               /\ progress_calls # <<>> =>
                      Last(progress_calls) = Len(api_result.bytes)

C16_Witness ==
    /\ api_pc = "done"
    /\ api_call.method = "download_recording_data"
    /\ api_call.callback
    /\ stream.chunks = << <<1>>, <<2, 3>> >>
    /\ api_result = ReturnBytes(<<1, 2, 3>>)
    /\ progress_calls = <<1, 3>>

\* C17: json_or_raise returns the parsed JSON when the API returned no
\* error and raises when it did; for a status in 400..499 the error raised
\* carries the "error" message of the server as its reason; a body that is
\* not JSON raises HTTPError whatever the status.
C17_JsonOrRaise ==
    api_response # NoResponse =>
        /\ api_response.body.kind = "text" =>
               api_json.kind = "raise" /\ api_json.err = "HTTPError"
        /\ (api_response.body.kind # "text" /\ api_response.status_code < 400) =>
               /\ api_json.kind = "return"
               /\ api_json.json = api_response.body
        /\ api_response.status_code >= 400 => api_json.kind = "raise"
        /\ ( /\ api_response.status_code \in 400..499
             /\ api_response.body.kind = "dict"
             /\ "error" \in DOMAIN api_response.body.fields ) =>
               /\ api_json.err = "HTTPError"
               /\ api_json.reason = api_response.body.fields.error

C17_Witness ==
    /\ api_pc = "done"
    /\ api_response.status_code = 404
    /\ api_response.reason = "Not Found"
    /\ api_response.body = Body("dict", [error |-> "device not found"])
    /\ api_json.kind = "raise"
    /\ api_json.message = <<"404", "Client Error", "device not found">>
    /\ api_result = api_json

\* The JSON body holds the members of params that are not None, and no other.
ExactlyNotNone(json, params) ==
    /\ DOMAIN json = {k \in DOMAIN params : params[k] # None}
    /\ \A k \in DOMAIN json : json[k] = params[k]

\* C18: the body of the request holds exactly the parameters that are not
\* None, for create_device, update_device and upload_data.
C18_BodyOmitsNone ==
    (api_pc = "done" /\ sent # <<>>) =>
        /\ api_call.method = "create_device" =>
               ExactlyNotNone(sent[1].json,
                   [name |-> api_call.args.name,
                    properties |-> api_call.args.properties,
                    projectId |-> api_call.args.project_id])
        /\ api_call.method = "update_device" =>
               ExactlyNotNone(sent[1].json,
                   [name |-> api_call.args.new_name,
                    properties |-> api_call.args.properties])
        /\ api_call.method = "upload_data" =>
               ExactlyNotNone(sent[1].json,
                   [deviceId |-> api_call.args.device_id,
                    deviceName |-> api_call.args.device_name,
                    filename |-> api_call.args.filename,
                    key |-> api_call.args.key,
                    projectId |-> api_call.args.project_id])

C18_Witness ==
    /\ api_pc = "done"
    /\ api_call.method = "upload_data"
    /\ api_call.args.device_id = None
    /\ api_call.args.device_name = None
    /\ Len(sent) = 2
    /\ sent[1].json = [filename |-> "test_file.mcap", key |-> "key_1"]
    /\ api_result.kind = "return"

\* C19: create_event with end None sends an end equal to the start, and
\* create_event with neither device_id nor device_name raises RuntimeError
\* and sends no request.
C19_CreateEventDefaults ==
    (api_pc = "done" /\ api_call.method \in {"create_event", "legacy_create_event"}) =>
        /\ (api_call.args.end = None /\ sent # <<>>) =>
               /\ sent[1].json.end = sent[1].json.start
               /\ sent[1].json.start = isoformat(api_call.args.start)
        /\ ( /\ api_call.method = "create_event"
             /\ api_call.args.device_id = None
             /\ api_call.args.device_name = None ) =>
               /\ api_result.kind = "raise"
               /\ api_result.err = "RuntimeError"
               /\ sent = <<>>

C19_Witness ==
    /\ api_pc = "done"
    /\ api_call.method = "create_event"
    /\ api_call.args.end = None
    /\ api_call.args.start = "datetime_1"
    /\ api_call.args.device_id = "dev_1"
    /\ Len(sent) = 1
    /\ sent[1].json.end = "2020-01-01T00:00:00+00:00"
    /\ api_result.kind = "return"

(***************************************************************************)
(* How a message comes to its decoder.                                     *)
(***************************************************************************)

\* The schema a channel names.
SchemaOfChannel(channel) == SchemaById(channel.schema_id)

\* The messages decoded so far with what they were decoded to.
DecodedItems ==
    IF Iterating
    THEN [i \in DOMAIN out |-> <<out[i][3], out[i][4]>>]
    ELSE IF pc = "returned" /\ result.kind = "return"
    THEN [i \in DOMAIN result.value |-> <<result.value[i][2], result.value[i][3]>>]
    ELSE <<>>

\* The decoder that the encoding tag of a schema names.
DecoderOfSchemaEncoding(schema) ==
    decoder_for_schema_encoding(schema.encoding, OptionalPackages)

\* The payload of the message, given to the decoder, decodes to the value.
DecodesTo(d, message, value) ==
    \E res \in {ApplyDecoder(d, message.data)} : res.ok /\ res.value = value

ResolvedBySchemaEncoding(item) ==
    \E schema \in {SchemaOfChannel(ChannelById(item[1].channel_id))} :
        /\ schema.type # "None"
        /\ \E built \in {DecoderOfSchemaEncoding(schema)} :
               built.ok /\ DecodesTo(built.decoder, item[1], item[2])

IdsRead(type, n) ==
    { container.records[j].id :
        j \in { k \in 1..n : container.records[k].type = type } }

\* The record of a type and id that was read last among the first n.
LastRead(type, id, n) ==
    container.records[
        CHOOSE j \in 1..n :
            /\ container.records[j].type = type
            /\ container.records[j].id = id
            /\ \A k \in (j + 1)..n :
                   ~(container.records[k].type = type /\ container.records[k].id = id)]

NumYields == Cardinality({ i \in DOMAIN pulls : pulls[i] = "yield" })

\* C21: Schema and Channel records only update the lookup tables of the
\* reader and produce no tuple, a Message record produces exactly one tuple
\* and leaves the tables unchanged: the tables hold the definitions read so
\* far and nothing else, and the tuples yielded are as many as the Message
\* records read, not as many as the records.
C21_DefinitionsYieldNothing ==
    /\ Iterating =>
          \A n \in {reader.pos} :
              /\ DOMAIN reader.schemas = IdsRead("Schema", n)
              /\ \A id \in DOMAIN reader.schemas :
                     reader.schemas[id] = LastRead("Schema", id, n)
              /\ DOMAIN reader.channels \subseteq IdsRead("Channel", n)
              /\ \A id \in DOMAIN reader.channels :
                     reader.channels[id] = LastRead("Channel", id, n)
              /\ Len(out) = NumYields
              /\ Len(out) <= MessagesBefore(n + 1)
              /\ result.kind # "raise" =>
                     /\ DOMAIN reader.channels = IdsRead("Channel", n)
                     /\ Len(out) = MessagesBefore(n + 1)
                     /\ Exhausted => Len(out) = NumMessages
    /\ (pc = "returned" /\ op \in {"get_messages", "legacy_get_messages"}
        /\ result.kind = "return") =>
          Len(result.value) = NumMessages

C21_Witness ==
    /\ Iterating
    /\ Exhausted
    /\ Len(container.records) = 7
    /\ NumMessages = 2
    /\ Len(out) = 2
    /\ DOMAIN reader.schemas = {1, 3}
    /\ DOMAIN reader.channels = {1, 3}
    /\ container.records[6].type = "Channel"

(***************************************************************************)
(* Optional decoder packages that are not installed.                       *)
(***************************************************************************)

\* Record i is a message of a known channel whose encoding is that of an
\* optional package which the environment does not have.
AbsentAt(i) ==
    /\ IsMessage(container.records[i])
    /\ DefinedBefore(i, "Channel", container.records[i].channel_id)
    /\ ChannelById(container.records[i].channel_id).message_encoding = "ros1"
    /\ "mcap_ros1" \notin installed

RECURSIVE FirstAbsentFrom(_)
FirstAbsentFrom(i) ==
    IF i > Len(container.records) THEN 0
    ELSE IF AbsentAt(i) THEN i ELSE FirstAbsentFrom(i + 1)

FirstAbsent == FirstAbsentFrom(1)

\* The legacy get_messages can process every record but the messages of the
\* absent encoding.
LegacyValidButAbsent ==
    \A i \in 1..Len(container.records) : LegacyUnprocessable(i) => AbsentAt(i)

\* C22: a missing optional decoder package is no error until its encoding
\* is met.  Without it a container of supported messages decodes completely,
\* and a container with a message of the absent encoding fails at the first
\* such message, after the supported messages before it were decoded.
C22_AbsentDecoderFailsWhenMet ==
    installed = {} =>
        /\ Iterating =>
              \A p \in {FirstAbsent} :
                  /\ (p = 0 /\ FirstBad = 0) =>
                         /\ result.kind # "raise"
                         /\ Exhausted => Len(out) = NumMessages
                  /\ (p # 0 /\ FirstBad = p) =>
                         \A u \in {MessagesBefore(p) + 1} :
                             /\ Len(out) < u
                             /\ Len(pulls) < u => result.kind # "raise"
                             /\ Len(pulls) >= u =>
                                    /\ \A i \in 1..(u - 1) : pulls[i] = "yield"
                                    /\ pulls[u] = "raise"
                                    /\ Len(out) = u - 1
                                    /\ reader.pos = p
                                    /\ result = Raised("DecoderNotFound")
        /\ (op = "legacy_get_messages" /\ pc = "returned" /\ reader.pos > 0) =>
              /\ (FirstAbsent = 0 /\ LegacyValid) => result.kind = "return"
              /\ (FirstAbsent # 0 /\ LegacyValidButAbsent) =>
                     result = Raised("RuntimeError")

C22_Witness ==
    /\ installed = {}
    /\ Iterating
    /\ FirstAbsent = 6
    /\ FirstBad = 6
    /\ NumMessages = 3
    /\ pulls = <<"yield", "raise">>
    /\ out[1][3] = M1
    /\ result = Raised("DecoderNotFound")

(***************************************************************************)
(* Containers whose framing is broken.                                     *)
(***************************************************************************)

\* The errors of the reader that stand for a malformed container.
MalformedContainerErrors == {"InvalidMagic", "EndOfFile", "McapError"}

IsMalformed == ~container.magic \/ container.cut # 0

\* First record of the chunk that holds position p.
ChunkStart(p) == (((p - 1) \div container.chunk) * container.chunk) + 1

\* No record before position p stops the call for another reason.
NoOtherErrorBefore(p) == FirstBad = 0 \/ FirstBad >= p

\* An iteration over a malformed container yields k tuples and then raises.
YieldsThenRaisesMalformed(k) ==
    /\ Len(out) <= k
    /\ \A i \in 1..Min(k, Len(pulls)) : pulls[i] = "yield"
    /\ Len(pulls) > k =>
           /\ pulls[k + 1] = "raise"
           /\ Len(out) = k
           /\ result.kind = "raise"
           /\ result.err \in MalformedContainerErrors
           /\ \A i \in (k + 2)..Len(pulls) : pulls[i] = "stop"

\* get_messages on a malformed container does not return a list.
MalformedNeverReturned ==
    (pc = "returned" /\ IsMalformed) => result.kind = "raise"

\* C23: a container with a bad magic, or cut short after k complete message
\* records, makes iter_messages yield the k tuples of the complete messages
\* and then raise the malformed-container error; the sequence never ends
\* normally.
C23_CompleteMessagesThenError ==
    /\ MalformedNeverReturned
    /\ (Iterating /\ ~container.magic) => YieldsThenRaisesMalformed(0)
    /\ (Iterating /\ container.magic /\ container.cut # 0
        /\ NoOtherErrorBefore(container.cut)) =>
           YieldsThenRaisesMalformed(MessagesBefore(container.cut))

\* C23 for a reader that takes chunks whole: the tuples yielded before the
\* error are those of the messages in the chunks before the one in which
\* the bytes end.
C23_CompleteChunksThenError ==
    /\ MalformedNeverReturned
    /\ (Iterating /\ ~container.magic) => YieldsThenRaisesMalformed(0)
    /\ (Iterating /\ container.magic /\ container.cut # 0
        /\ NoOtherErrorBefore(ChunkStart(container.cut))) =>
           YieldsThenRaisesMalformed(MessagesBefore(ChunkStart(container.cut)))

C23_Witness ==
    /\ Iterating
    /\ container = Container(<<S1, S2, C1, C2, M1, M2, M1>>, 2, TRUE, 7)
    /\ pulls = <<"yield", "yield", "raise", "stop">>
    /\ Len(out) = 2
    /\ result = Raised("EndOfFile")

----------------------------------------------------------------------------
\* The pulls that yielded a tuple.
Yields(ps) == Cardinality({ i \in DOMAIN ps : ps[i] = "yield" })

\* What holds of a pass after every step: the i-th tuple is that of the i-th
\* message record, the tuples are those of records the reader has passed,
\* and after a pull that yielded nothing no pull yields.
PassSoFar ==
    Iterating =>
        /\ Len(out) = Yields(pulls)
        /\ Len(out) <= MessagesBefore(reader.pos + 1)
        /\ \A i \in 1..Len(out) : out[i][3] = MessageRecords[i]
        /\ \A i, j \in DOMAIN pulls :
               (i < j /\ pulls[i] # "yield") => pulls[j] = "stop"

\* C24: the sequence iter_messages returns is a single forward-only pass.  A
\* pull never moves the reader back and never takes a tuple back, the i-th
\* tuple is that of the i-th message record (so no record is yielded twice),
\* a pull on the exhausted sequence yields nothing and reads nothing, and
\* only a new iter_messages call starts a pass at the first record again.
C24_SingleForwardPass ==
    [][ /\ (pc = "iterating" /\ pc' = "iterating") =>
              /\ reader'.pos >= reader.pos
              /\ Len(out') >= Len(out)
              /\ SubSeq(out', 1, Len(out)) = out
              /\ Len(pulls') = Len(pulls) + 1
        /\ (pc = "iterating" /\ pc' = "iterating" /\ Exhausted) =>
              /\ pulls'[Len(pulls')] = "stop"
              /\ out' = out
              /\ reader'.pos = reader.pos
        /\ (pc # "iterating" /\ pc' = "iterating") =>
              /\ op' = "iter_messages"
              /\ reader'.pos = 0 /\ out' = <<>> /\ pulls' = <<>>
        /\ PassSoFar' ]_vars

C24_Witness ==
    /\ Iterating
    /\ NumMessages = 2
    /\ pulls = <<"yield", "yield", "stop", "stop">>
    /\ Len(out) = 2
    /\ reader.pos = Len(container.records)

----------------------------------------------------------------------------
\* The URL is one of the configured API host.
IsApiUrl(url) == Len(url) >= 2 /\ url[1] = "https://" /\ url[2] = Host

CarriesToken(request) ==
    /\ "authorization" \in DOMAIN request.headers
    /\ request.headers["authorization"] = Bearer(Token)

\* C25: the bearer token is sent only to the configured API host.  Every
\* request to the API host carries the Authorization header, and a request
\* to a link the API returned (the GET of a download or stream link, the PUT
\* to an upload link) carries no Authorization header.
C25_TokenOnlyToApiHost ==
    \A i \in DOMAIN sent :
        IF IsApiUrl(sent[i].url)
        THEN CarriesToken(sent[i])
        ELSE "authorization" \notin DOMAIN sent[i].headers

----------------------------------------------------------------------------
IterMessagesReturned == api_call.method = "iter_messages" /\ api_pc = "done"

\* C26: iter_messages checks that device_id or device_name is given, then
\* posts to /v1/data/stream for the link, then gets the link as a stream,
\* then builds the reader.  A missing selector, an error answer to the POST
\* and an error status of the GET are each raised by the call itself, which
\* then returns no generator, and nothing of a later step has happened: no
\* request of a later step was sent and no stream was handed to a reader.
C26_StepsInOrderFailFast ==
    IterMessagesReturned =>
        /\ Len(sent) <= 2
        /\ Len(sent) >= 1 =>
               /\ sent[1].method = "POST"
               /\ sent[1].url = Url(<<"/v1/data/stream">>)
               /\ api_response \in Responses
        /\ Len(sent) = 2 =>
               /\ api_response.status_code < 400
               /\ api_response.body.kind = "dict"
               /\ "link" \in DOMAIN api_response.body.fields
               /\ sent[2].method = "GET"
               /\ sent[2].url = <<api_response.body.fields.link>>
               /\ link_response # NoResponse
        /\ (api_call.args.device_id = None /\ api_call.args.device_name = None) =>
               /\ sent = <<>>
               /\ api_result.kind = "raise" /\ api_result.err = "RuntimeError"
        /\ (api_call.args.device_id # None \/ api_call.args.device_name # None) =>
               Len(sent) >= 1
        /\ (Len(sent) >= 1 /\ (\/ api_response.status_code >= 400
                               \/ api_response.body.kind = "text")) =>
               /\ Len(sent) = 1
               /\ api_result.kind = "raise"
        /\ (Len(sent) = 2 /\ link_response.status_code >= 400) =>
               /\ api_result.kind = "raise" /\ api_result.err = "HTTPError"
        /\ (Len(sent) = 2 /\ link_response.status_code < 400) =>
               api_result = ReturnGenerator
        /\ api_result.kind \in {"raise", "return"}
        /\ api_result.kind = "raise" =>
               /\ stream = NoStream
               /\ Len(sent) < 2 => link_response = NoResponse
        /\ api_result.kind = "return" =>
               /\ Len(sent) = 2
               /\ stream.chunks = <<>>

C26_Witness ==
    /\ IterMessagesReturned
    /\ Len(sent) = 2
    /\ link_response.status_code = 404
    /\ api_result.kind = "raise"
    /\ api_result.message = <<"404", "Client Error", "Not Found">>
    /\ stream = NoStream

----------------------------------------------------------------------------
UploadReturned == api_call.method = "upload_data" /\ api_pc = "done"

\* C27: upload_data puts the data only after the link request succeeded.  If
\* the answer to POST /v1/data/upload is an error the call raises, only that
\* request has been sent, nothing has been read from the data source and the
\* callback has not been called.  Once the PUT is sent the call returns the
\* link, the text and the status code of the PUT, whatever that status is.
C27_PutOnlyAfterLink ==
    UploadReturned =>
        /\ Len(sent) \in {1, 2}
        /\ sent[1].method = "POST"
        /\ sent[1].url = Url(<<"/v1/data/upload">>)
        /\ (api_response.status_code >= 400 \/ api_response.body.kind = "text") =>
               api_result.kind = "raise"
        /\ api_result.kind = "raise" =>
               /\ Len(sent) = 1
               /\ link_response = NoResponse
               /\ stream.chunks = <<>>
               /\ stream.remaining = Rest(api_call.args.data)
               /\ progress_calls = <<>>
        /\ Len(sent) = 2 =>
               /\ api_response.status_code < 400
               /\ api_response.body.kind = "dict"
               /\ "link" \in DOMAIN api_response.body.fields
               /\ sent[2].method = "PUT"
               /\ sent[2].url = <<api_response.body.fields.link>>
               /\ sent[2].body = Concat(stream.chunks)
               /\ sent[2].body \o stream.remaining = Rest(api_call.args.data)
               /\ link_response.status_code \in {200, 404, 500}
               /\ api_result.kind = "return"
               /\ api_result.json.kind = "dict"
               /\ api_result.json.fields =
                      [link |-> api_response.body.fields.link, text |-> "",
                       code |-> StatusText(link_response.status_code)]

C27_Witness ==
    /\ UploadReturned
    /\ Len(sent) = 2
    /\ link_response.status_code = 500
    /\ api_result.kind = "return"
    /\ api_result.json.fields.code = "500"
    /\ api_call.args.data = Stream("file", <<1, 2, 3>>, 1)
    /\ sent[2].body = <<2, 3>>
    /\ Len(progress_calls) = 2

----------------------------------------------------------------------------
Constructed == progress_pc = "open"

\* The bytes the read calls up to the i-th have returned.
ReturnedUpTo(i) == Len(Concat(SubSeq(ChunksReturned, 1, i)))

\* C28: in every state of a ProgressBufferReader tell() is the number of
\* bytes its read calls have returned so far and is the progress of the last
\* callback call; the progress is 0 at first and never decreases, and over
\* a bytes buffer of L bytes it never exceeds L, which len() keeps giving.
C28_TellIsBytesReturned ==
    Constructed =>
        /\ ProgressBufferReader_tell(progress_reader) = ReturnedUpTo(Len(read_calls))
        /\ \A i \in DOMAIN read_calls : read_calls[i].tell = ReturnedUpTo(i)
        /\ read_calls = <<>> => ProgressBufferReader_tell(progress_reader) = 0
        /\ callback_calls # <<>> =>
               Last(callback_calls).progress =
                   ProgressBufferReader_tell(progress_reader)
        /\ \A i, j \in DOMAIN read_calls :
               i <= j => read_calls[i].tell <= read_calls[j].tell
        /\ \A i, j \in DOMAIN callback_calls :
               i <= j => callback_calls[i].progress <= callback_calls[j].progress
        /\ upload_source.kind = "bytes" =>
               /\ ProgressBufferReader_tell(progress_reader) <= Len(upload_source.data)
               /\ ProgressBufferReader_len(progress_reader) = Len(upload_source.data)
               /\ \A i \in DOMAIN read_calls :
                      read_calls[i].len = Len(upload_source.data)

C28_Witness ==
    /\ Constructed
    /\ progress_reader.module = "foxglove.client"
    /\ progress_reader.callback
    /\ upload_source = Stream("file", <<1, 2, 3>>, 1)
    /\ ChunksReturned = << <<2>>, <<3>>, <<>> >>
    /\ ProgressBufferReader_tell(progress_reader) = 2
    /\ Last(callback_calls).progress = 2

\* C29: the callback is called exactly once by every read call, after the
\* progress was moved on, so with the progress that tell() gives after the
\* read; a read at the end of the data returns an empty chunk, not None, and
\* reports the progress unchanged.  Construction, tell() and len() call no
\* callback: the calls are as many as the reads.
C29_OneCallbackPerRead ==
    Constructed =>
        /\ Len(callback_calls) =
               IF progress_reader.callback THEN Len(read_calls) ELSE 0
        /\ \A i \in DOMAIN callback_calls :
               /\ callback_calls[i].progress = read_calls[i].tell
               /\ read_calls[i].wrapped = <<>> =>
                      /\ read_calls[i].chunk = <<>>
                      /\ callback_calls[i].progress =
                             IF i = 1 THEN 0 ELSE callback_calls[i - 1].progress

C29_Witness ==
    /\ Constructed
    /\ progress_reader.module = "foxglove.data_platform.client"
    /\ progress_reader.callback
    /\ upload_source = Stream("bytes", <<1, 2>>, 0)
    /\ ChunksReturned = << <<1, 2>>, <<>>, <<>> >>
    /\ callback_calls = << [size |-> 2, progress |-> 2], [size |-> 2, progress |-> 2],
                           [size |-> 2, progress |-> 2] >>

----------------------------------------------------------------------------
DeviceCallReturned ==
    /\ api_pc = "done"
    /\ api_call.method \in {"get_device", "update_device", "delete_device"}

\* C30: get_device, update_device and delete_device address a device by
\* exactly one selector.  A call with both device_id and device_name, or
\* with neither, raises RuntimeError and sends no request; a call with one
\* of them sends one request whose URL is that of the devices followed by
\* the selector given.
C30_ExactlyOneSelector ==
    DeviceCallReturned =>
        \A i \in {api_call.args.device_id}, n \in {api_call.args.device_name} :
            /\ ((i # None) = (n # None)) =>
                   /\ api_result.kind = "raise"
                   /\ api_result.err = "RuntimeError"
                   /\ sent = <<>>
            /\ ((i # None) # (n # None)) =>
                   /\ Len(sent) = 1
                   /\ sent[1].url =
                          Url(<<"/v1/devices/", IF i # None THEN i ELSE n>>)

====
